---- MODULE Spec2Model ----
(***************************************************************************)
(* Model of the parallel frame-ingestion pipeline of video-tools:          *)
(*   frames_to_video_frames_proto_lmdb.py   (script = "proto")             *)
(*   frames_to_labeled_video_frames_lmdb.py (script = "labeled")           *)
(* A multiprocessing pool decodes the enumerated frame files and pushes    *)
(* (path, image) pairs onto a bounded manager queue; the main process pops *)
(* them and writes one record per frame into an LMDB store, one write      *)
(* transaction per batch.                                                  *)
(***************************************************************************)
EXTENDS Integers, Sequences, FiniteSets, TLC

\* ------------------------------------------------------------------------
\* Bounds of the model
\* ------------------------------------------------------------------------
MaxPaths == 4        \* largest number of enumerated frame files
MaxWorkers == 2      \* largest --num_processes
MaxBatch == 2        \* largest batch_size (scaled stand-in for 5000/10000)
MaxCorrupt == 1      \* largest number of files load_image fails on

\* Python's None, where the other results are tuples.
None == <<>>

\* An exception raised instead of a value being returned.
Raised(exception) == [raised |-> exception]

IsRaised(value) == DOMAIN value = {"raised"}
NoImage == <<>>

\* ------------------------------------------------------------------------
\* Path parsing and key construction (frame_loader_util.py)
\* ------------------------------------------------------------------------
DigitChars == <<"0", "1", "2", "3", "4", "5", "6", "7", "8", "9">>

IsDigit(c) == \E i \in 1..10 : DigitChars[i] = c

DigitValue(c) == (CHOOSE i \in 1..10 : DigitChars[i] = c) - 1

frame_prefix == <<"f", "r", "a", "m", "e">>

\* re.match('^frame([0-9]*)$', frame_name): the match object <<group(1)>>,
\* or None.  '$' matches at the end of the string and also just before a
\* newline that ends the string.
MatchFrameNumber(frame_name) ==
    LET k == Len(frame_prefix)
        n == IF Len(frame_name) > 0 /\ frame_name[Len(frame_name)] = "\n"
             THEN Len(frame_name) - 1 ELSE Len(frame_name)
    IN IF /\ n >= k
          /\ SubSeq(frame_name, 1, k) = frame_prefix
          /\ \A i \in (k + 1)..n : IsDigit(frame_name[i])
       THEN <<SubSeq(frame_name, k + 1, n)>>
       ELSE None

RECURSIVE PyIntBase8(_)
PyIntBase8(digits) ==
    IF Len(digits) = 0 THEN 0
    ELSE 8 * PyIntBase8(SubSeq(digits, 1, Len(digits) - 1))
         + DigitValue(digits[Len(digits)])

\* int(digits) for a non-empty run of decimal digits.
RECURSIVE PyInt(_)
PyInt(digits) ==
    IF Len(digits) = 0 THEN 0
    ELSE 10 * PyInt(SubSeq(digits, 1, Len(digits) - 1))
         + DigitValue(digits[Len(digits)])

\* '{}'.format(n) for a non-negative integer.
RECURSIVE PyStr(_)
PyStr(n) ==
    IF n < 10 THEN DigitChars[n + 1]
    ELSE PyStr(n \div 10) \o DigitChars[(n % 10) + 1]

\* int('') raises ValueError.
ValueError == <<"ValueError">>

\* A frame path <root>/<video>/<stem>.png is the record
\* [video |-> directory name, stem |-> characters of the file stem].
parse_frame_path(frame_path) ==
    LET video_name == frame_path.video
        frame_number == MatchFrameNumber(frame_path.stem)
    IN IF video_name = "" THEN None
       ELSE IF frame_number = None THEN None
       ELSE IF Len(frame_number[1]) = 0 THEN ValueError
       ELSE <<video_name, PyInt(frame_number[1])>>

FrameKeyNoVideo(video_name, frame_index) == "-" \o PyStr(frame_index)

\* '{}-{}'.format(video_name, frame_index)
FrameKey(video_name, frame_index) ==
    video_name \o "-" \o PyStr(frame_index)

\* frame_path_to_key: None, or <<key>> for the key string returned; the
\* ValueError of parse_frame_path propagates.
frame_path_to_key(frame_path) ==
    LET frame_info == parse_frame_path(frame_path)
    IN IF frame_info = None THEN frame_info
       ELSE IF frame_info = ValueError THEN ValueError
       ELSE <<FrameKey(frame_info[1], frame_info[2])>>

\* ------------------------------------------------------------------------
\* Image decoding and record construction
\* ------------------------------------------------------------------------
\* Pixel content of the file behind a path: height x width x RGB.
FilePixels(frame_path) ==
    LET v == IF frame_path.video = "A" THEN 1 ELSE 2
        n == Len(frame_path.stem)
        last == frame_path.stem[n]
        d == IF IsDigit(last) THEN DigitValue(last) ELSE 0
    IN << << <<v, n, d>>, <<d, v, n>> >> >>

\* A resize argument that "if resize_height and resize_width" lets through:
\* neither None nor 0.  An optional argument is None or <<value>>.
Truthy(argument) == argument # None /\ argument[1] # 0

\* Image.resize((width, height)) with the default nearest-neighbour
\* filter: each output pixel is the input pixel under its centre.
ImageResize(rgb, width, height) ==
    [h \in 1..height |->
       [w \in 1..width |->
          rgb[((2 * h - 1) * Len(rgb)) \div (2 * height) + 1]
             [((2 * w - 1) * Len(rgb[1])) \div (2 * width) + 1]]]

\* load_image: resize when both sizes are given, RGB -> BGR, then
\* (height, width, channel) -> (channel, height, width).
load_image(frame_path, resize_height_arg, resize_width_arg) ==
    LET rgb == IF Truthy(resize_height_arg) /\ Truthy(resize_width_arg)
               THEN ImageResize(FilePixels(frame_path), resize_width_arg[1],
                                resize_height_arg[1])
               ELSE FilePixels(frame_path)
        height == Len(rgb)
        width == Len(rgb[1])
    IN [c \in 1..3 |->
          [h \in 1..height |-> [w \in 1..width |-> rgb[h][w][4 - c]]]]

RECURSIVE Flatten(_)
Flatten(seqs) ==
    IF Len(seqs) = 0 THEN <<>> ELSE Head(seqs) \o Flatten(Tail(seqs))

image_array_to_proto(image_array) ==
    [channels |-> Len(image_array),
     height |-> Len(image_array[1]),
     width |-> Len(image_array[1][1]),
     data |-> Flatten(Flatten(image_array))]

create_video_frame(video_name, frame_index, image_proto) ==
    [image |-> image_proto, video_name |-> video_name,
     frame_index |-> frame_index]

\* ------------------------------------------------------------------------
\* Labels (frames_to_labeled_video_frames_lmdb.py)
\* ------------------------------------------------------------------------
\* Category names in ascending string order, as sorted() orders them.
CategoryOrder == <<"run", "walk">>

SortedList(categories) ==
    SelectSeq(CategoryOrder, LAMBDA c : c \in categories)

\* start_seconds < float(frame_index) / frames_per_second < end_seconds,
\* compared exactly (seconds and rates are integers in the model).
collect_frame_labels(file_annotations, frame_index, fps) ==
    SortedList({file_annotations[i].category :
                  i \in {j \in 1..Len(file_annotations) :
                           /\ file_annotations[j].start_seconds * fps
                                < frame_index
                           /\ frame_index
                                < file_annotations[j].end_seconds * fps}})

create_labeled_frame_unchecked(video_name, frame_index, image_proto, labels, ids) ==
    [frame |-> create_video_frame(video_name, frame_index, image_proto),
     label |-> [i \in 1..Len(labels) |->
                  IF labels[i] \in DOMAIN ids
                  THEN [name |-> labels[i], id |-> ids[labels[i]]]
                  ELSE [name |-> labels[i]]]]

\* The record, or KeyError raised when a label is missing from label_ids.
create_labeled_frame(video_name, frame_index, image_proto, labels, ids) ==
    IF \E i \in 1..Len(labels) : labels[i] \notin DOMAIN ids
    THEN Raised("KeyError")
    ELSE [frame |-> create_video_frame(video_name, frame_index, image_proto),
          label |-> [i \in 1..Len(labels) |->
                       [name |-> labels[i], id |-> ids[labels[i]]]]]

\* An assertion fails where the other results are tuples.
AssertionError == <<"AssertionError">>

AtLeastOneMode(frames_per_second, frame_step) ==
    ~(frames_per_second = None /\ frame_step = None)

\* (frames_per_second is None) != (frame_step is None); an optional
\* argument is None or <<value>>.
ExactlyOneMode(frames_per_second, frame_step) ==
    (frames_per_second = None) # (frame_step = None)

AfterStart(start, numerator, denominator) ==
    start * denominator < numerator

\* start <= query, for the query numerator / denominator.
AtOrAfterStart(start, numerator, denominator) ==
    start * denominator <= numerator

EndsAtQuery(numerator, denominator, end) == numerator = end * denominator

\* query <= end
AtOrBeforeEnd(numerator, denominator, end) ==
    numerator <= end * denominator

\* util.annotation.collect_frame_labels: the query is
\* float(frame_index) / frames_per_second against the seconds of an
\* annotation, or float(frame_index) * frame_step against its frames.
annotation_collect_frame_labels(file_annotations, frame_index, frames_per_second, frame_step) ==
    IF ~ExactlyOneMode(frames_per_second, frame_step) THEN AssertionError
    ELSE IF frames_per_second # None
    THEN SortedList(
           {file_annotations[i].category :
              i \in {j \in 1..Len(file_annotations) :
                       /\ AtOrAfterStart(file_annotations[j].start_seconds,
                                         frame_index, frames_per_second[1])
                       /\ AtOrBeforeEnd(frame_index, frames_per_second[1],
                                        file_annotations[j].end_seconds)}})
    ELSE SortedList(
           {file_annotations[i].category :
              i \in {j \in 1..Len(file_annotations) :
                       /\ AtOrAfterStart(file_annotations[j].start_frame,
                                         frame_index * frame_step[1], 1)
                       /\ AtOrBeforeEnd(frame_index * frame_step[1], 1,
                                        file_annotations[j].end_frame)}})

\* sorted(label_ids.values())
RECURSIVE SortedValues(_, _)
SortedValues(ids, labels) ==
    IF labels = {} THEN <<>>
    ELSE LET least == CHOOSE l \in labels :
                         \A other \in labels : ids[l] <= ids[other]
         IN <<ids[least]>> \o SortedValues(ids, labels \ {least})

\* range(n)
PyRange(n) == [i \in 1..n |-> i - 1]

StoredIdUnadjusted(label_id, one_indexed_labels) == label_id

\* label_ids[label] = int(label_id); if one_indexed_labels:
\* label_ids[label] -= 1
StoredId(label_id, one_indexed_labels) ==
    IF one_indexed_labels THEN label_id - 1 ELSE label_id

\* load_label_ids: a line of the class mapping file is the record
\* [id |-> int(label_id), label |-> label]; a later line with the same
\* label replaces the earlier entry of the dict.
load_label_ids(lines, one_indexed_labels) ==
    LET labels == {lines[i].label : i \in 1..Len(lines)}
        LastLine(label) ==
            CHOOSE i \in 1..Len(lines) :
                /\ lines[i].label = label
                /\ \A j \in (i + 1)..Len(lines) : lines[j].label # label
        ids == [label \in labels |->
                  StoredId(lines[LastLine(label)].id, one_indexed_labels)]
    IN IF SortedValues(ids, labels) = PyRange(Cardinality(labels))
       THEN ids ELSE Raised("AssertionError")

\* ' '.join(words)
RECURSIVE JoinWords(_)
JoinWords(words) ==
    IF Len(words) = 0 THEN ""
    ELSE IF Len(words) = 1 THEN words[1]
    ELSE words[1] \o " " \o JoinWords(Tail(words))

\* The text of a line is modelled by details = line.strip().split(' '):
\* <<int(label_id), word, ...>>.
\* util.annotation.load_label_ids: label_id = details[0];
\* label = ' '.join(details[1:])
util_load_label_ids(class_mapping, one_indexed_labels) ==
    load_label_ids(
        [i \in 1..Len(class_mapping) |->
           [id |-> class_mapping[i][1],
            label |-> JoinWords(Tail(class_mapping[i]))]],
        one_indexed_labels)

\* frames_to_labeled_video_frames_lmdb.load_label_ids:
\* label_id, label = line.strip().split(' ') raises ValueError unless the
\* line has exactly two tokens.
script_load_label_ids(class_mapping, one_indexed_labels) ==
    IF \E i \in 1..Len(class_mapping) : Len(class_mapping[i]) # 2
    THEN Raised("ValueError")
    ELSE load_label_ids(
             [i \in 1..Len(class_mapping) |->
                [id |-> class_mapping[i][1], label |-> class_mapping[i][2]]],
             one_indexed_labels)

DefaultDictGetAnyFile(annotations_map, video_name) ==
    IF video_name \in DOMAIN annotations_map THEN annotations_map[video_name]
    ELSE IF DOMAIN annotations_map = {} THEN <<>>
    ELSE annotations_map[CHOOSE v \in DOMAIN annotations_map : TRUE]

\* annotations[video_name] on a collections.defaultdict(list).
DefaultDictGet(annotations_map, video_name) ==
    IF video_name \in DOMAIN annotations_map
    THEN annotations_map[video_name] ELSE <<>>

DefaultDictTouch(annotations_map, video_name) ==
    IF video_name \in DOMAIN annotations_map
    THEN annotations_map ELSE annotations_map @@ (video_name :> <<>>)

\* ------------------------------------------------------------------------
\* Frame dumping (dump_frames.py)
\* ------------------------------------------------------------------------
\* The directory the process runs in.
WorkingDirectory == <<"d">>

\* os.path.abspath of a path [absolute |-> is rooted at '/', parts |->
\* its components].
os_path_abspath(file_path) ==
    IF file_path.absolute THEN file_path
    ELSE [absolute |-> TRUE, parts |-> WorkingDirectory \o file_path.parts]

ExpectedFrameCountAll(duration_halves, rate) ==
    (duration_halves * rate) \div 2

\* int(math.floor(expected_duration * expected_frames_per_second) - 1),
\* the duration given in half seconds; range() of a negative count is
\* empty.
ExpectedFrameCount(duration_halves, rate) ==
    IF (duration_halves * rate) \div 2 - 1 < 0 THEN 0
    ELSE (duration_halves * rate) \div 2 - 1

\* frames_already_dumped.  The file system is given by info_file, None
\* when expected_info_path is no file and else <<its JSON content>>, and by
\* frame_files, the indices i for which expected_name_format % i exists.
frames_already_dumped(video_path, info_file, frame_files, expected_frames_per_second, expected_duration) ==
    IF info_file = None THEN FALSE
    ELSE LET info == info_file[1]
             info_valid ==
                 /\ info.frames_per_second = expected_frames_per_second
                 /\ info.input_video_path = os_path_abspath(video_path)
             offset_if_one_indexed == IF 0 \notin frame_files THEN 1 ELSE 0
             expected_frame_paths ==
                 [i \in 1..ExpectedFrameCount(expected_duration,
                                              expected_frames_per_second) |->
                    (i - 1) + offset_if_one_indexed]
             missing_frames ==
                 SelectSeq(expected_frame_paths,
                           LAMBDA x : x \notin frame_files)
         IN IF ~info_valid THEN FALSE
            ELSE IF missing_frames # <<>> THEN FALSE
            ELSE TRUE

\* ------------------------------------------------------------------------
\* Inputs
\* ------------------------------------------------------------------------
Scripts == {"proto", "labeled"}

FrameStem(digits) == frame_prefix \o digits

\* The i-th well-formed frame file: A/frame1, B/frame1, A/frame2, ...
CleanPath(i) ==
    [video |-> IF i % 2 = 1 THEN "A" ELSE "B",
     stem |-> FrameStem(<<DigitChars[((i + 1) \div 2) + 1]>>)]

\* Other png files a video directory may hold: a zero-padded twin of
\* A/frame1, and a file that does not follow the naming convention.
ExtraPaths ==
    {[video |-> "A", stem |-> FrameStem(<<"0", "1">>)],
     [video |-> "A", stem |-> <<"t", "h", "u", "m", "b">>]}

\* The listings glob.iglob may produce (in frame_path_info.keys() order).
Listings ==
    LET clean(n) == [i \in 1..n |-> CleanPath(i)] IN
    {clean(n) : n \in 0..MaxPaths}
    \cup {Append(clean(n), x) : n \in 0..(MaxPaths - 1), x \in ExtraPaths}

RunAnnotation ==
    [filename |-> "A", start_frame |-> 0, end_frame |-> 2,
     start_seconds |-> 0, end_seconds |-> 2, frames_per_second |-> 1,
     category |-> "run"]

filter_keeps_every_file(annotations_map, category) ==
    [filename \in DOMAIN annotations_map |->
       SelectSeq(annotations_map[filename],
                 LAMBDA x : x.category = category)]

\* filter_annotations_by_category: the annotations of the category, for
\* the files that have any.
filter_annotations_by_category(annotations_map, category) ==
    [filename \in {f \in DOMAIN annotations_map :
                     \E i \in 1..Len(annotations_map[f]) :
                        annotations_map[f][i].category = category} |->
       SelectSeq(annotations_map[filename],
                 LAMBDA x : x.category = category)]

\* load_annotations_json: the annotations of the file grouped by filename,
\* in file order; with a filter_category (<<category>>, None when left
\* out) only the annotations of that category, and ValueError if none.
load_annotations_json(annotations_list, filter_category) ==
    LET grouped ==
            [filename \in {annotations_list[i].filename :
                             i \in 1..Len(annotations_list)} |->
               SelectSeq(annotations_list, LAMBDA a : a.filename = filename)]
    IN IF filter_category = None THEN grouped
       ELSE LET filtered == filter_annotations_by_category(
                                grouped, filter_category[1])
            IN IF DOMAIN filtered = {} THEN Raised("ValueError")
               ELSE filtered

\* (--annotations_json content, --class_mapping content,
\* --frames_per_second) of a labeled run: a catalog that names the
\* annotated category, one that misses it, and one whose ids do not start
\* at 0.
LabelSetups ==
    {[annotations_list |-> <<RunAnnotation>>, fps |-> 1,
      class_mapping |-> << <<1, "run">> >>, one_indexed_labels |-> TRUE],
     [annotations_list |-> <<RunAnnotation>>, fps |-> 1,
      class_mapping |-> << <<0, "walk">> >>, one_indexed_labels |-> FALSE],
     [annotations_list |-> <<RunAnnotation>>, fps |-> 1,
      class_mapping |-> << <<1, "run">> >>, one_indexed_labels |-> FALSE]}

\* frames_to_video_frames_proto_lmdb takes no annotations.
NoLabels ==
    [annotations_list |-> <<>>, fps |-> 1,
     class_mapping |-> <<>>, one_indexed_labels |-> FALSE]

\* --resize_width or --resize_height: left out, or a size.
ResizeInputs == {None, <<1>>}

\* ------------------------------------------------------------------------
\* State
\* ------------------------------------------------------------------------
VARIABLES
    script,          \* which main() runs
    frame_paths,     \* frame_path_info.keys(), in order
    num_processes,   \* --num_processes
    batch_size,      \* batch_size; also the queue's maxsize
    frames_per_second,
    annotations_json, \* content of the --annotations_json file
    args_class_mapping,       \* content of the --class_mapping file
    args_one_indexed_labels,  \* --one_indexed_labels
    resize_width,    \* --resize_width: None or <<size>>
    resize_height,   \* --resize_height: None or <<size>>
    pool_state,      \* "none", "running" once mp.Pool() was created
    open_txns,       \* write transactions begun and not yet ended
    annotations,     \* defaultdict: video name -> list of Annotation
    label_ids,       \* dict: label name -> id
    tasks,           \* chunks of job arguments not yet taken by a worker
    workers,         \* busy pool processes: rest of chunk, decoded image
    queue,           \* the manager queue of (path, image) pairs
    failed,          \* paths whose load_image raised in a worker, this run
    corrupt,         \* files found to be corrupt: load_image raises on them
    sound,           \* files found to decode
    wpc,             \* position of the writer loop of main()
    num_stored,
    loaded_images,
    iter,            \* iterations of "for _ in range(batch_size)" so far
    held,            \* the pair returned by queue.get(), until it is put
    txn,             \* puts of the open write transaction, in order
    store,           \* committed content of the LMDB: key -> value
    batches,         \* the committed transactions of this run, in order
    run,             \* "first", then "again" (same store) or "fresh"
    first_store,     \* the store as the first run left it
    log,             \* messages main() has logged after the writer loop
    call,            \* the library function called last, with its arguments
    result,          \* what that call returned or raised
    \* remove_images_from_labeled_video_frames.py
    input_lmdb,      \* content of args.input_lmdb: key -> value
    output_lmdb,     \* committed content of args.output_lmdb
    copy_batch_size, \* batch_size of main()
    last_key,        \* last_key of main(): None or <<key>>
    copy_pc,         \* "off", "call", "iterate", "done"
    read_cursor,     \* key the cursor iterator yields next, 0 when it has none
    copy_iter,       \* iterations of "for i in range(batch_size)" so far
    output_transaction,  \* puts of the open output transaction
    progress,        \* updates of the progress bar
    \* resize_images.py
    image_paths,     \* the frames without a resized copy at filtering time
    output_files,    \* output_file(frame) that exist: frame -> content
    resize_processes,    \* --num_processes
    resize_capacity, \* maxsize of the queue
    resize_jobs,     \* jobs no pool process has taken yet
    resize_workers,  \* frames resized by a pool process, not yet pushed
    resize_queue,    \* the manager queue of (path, image) pairs
    resize_held,     \* the pair returned by queue.get(): None or <<frame>>
    num_resized,
    resize_pc,       \* "off", "get", "got", "done"
    \* dump_frames.py
    dump_video_path, \* video_path
    dump_fps,        \* frames_per_second: None or <<rate>>
    video_info,      \* what ffmpeg_parse_infos returns or raises
    disk_info_file,  \* info.json of the output directory: None or <<content>>
    disk_frame_files,    \* i such that name_format % i exists
    successfully_wrote_images,
    dump_pc,         \* "off", "start", "extract", "mark", "returned", ...
    dump_calls,      \* calls of dump_frames for this video so far
    \* create_train_val_split.py
    annotations_by_label,    \* OrderedDict as a sequence of [label, files]
    valtrain_videos,
    valval_videos,
    swap,            \* what split_constraint_fix returned last
    num_valval,      \* int(round(args.val_portion * len(filenames)))
    split_log,       \* label of the last 'Swapping (%s, %s) for label %s'
    split_pc         \* "off", "fix", "swap", "done", "failed"

inputs == <<script, frame_paths, num_processes, batch_size,
            frames_per_second, annotations_json, args_class_mapping,
            args_one_indexed_labels, resize_width, resize_height>>
pool == <<tasks, workers, queue, failed, corrupt, sound>>
writer == <<wpc, num_stored, loaded_images, iter, held, txn, log, open_txns>>
calls == <<call, result>>
copier == <<input_lmdb, output_lmdb, copy_batch_size, last_key, copy_pc,
            read_cursor, copy_iter, output_transaction, progress>>
resizer == <<image_paths, output_files, resize_processes, resize_capacity,
             resize_jobs, resize_workers, resize_queue, resize_held,
             num_resized, resize_pc>>
dumper == <<dump_video_path, dump_fps, video_info, disk_info_file,
            disk_frame_files, successfully_wrote_images, dump_pc, dump_calls>>
splitter == <<annotations_by_label, valtrain_videos, valval_videos, swap,
              num_valval, split_log, split_pc>>
not_copier == <<resizer, dumper, splitter>>
not_resizer == <<copier, dumper, splitter>>
not_dumper == <<copier, resizer, splitter>>
not_splitter == <<copier, resizer, dumper>>
tools == <<copier, resizer, dumper, splitter>>
vars == <<inputs, pool_state, annotations, label_ids, pool, writer, store,
          batches, run, first_store, calls, tools>>

num_paths == Len(frame_paths)

EmptyStore == [k \in {} |-> None]

\* ------------------------------------------------------------------------
\* The worker pool (load_images_async, multiprocessing.Pool.map_async)
\* ------------------------------------------------------------------------
\* Pool.map_async: chunksize, extra = divmod(len(iterable), len(pool) * 4)
MapChunkSize(n, processes) ==
    IF n = 0 THEN 0
    ELSE (n \div (processes * 4))
         + (IF n % (processes * 4) # 0 THEN 1 ELSE 0)

\* Pool._get_tasks: consecutive slices of at most size items.
RECURSIVE GetTasks(_, _)
GetTasks(items, size) ==
    IF Len(items) = 0 THEN <<>>
    ELSE IF Len(items) <= size THEN <<items>>
    ELSE <<SubSeq(items, 1, size)>>
         \o GetTasks(SubSeq(items, size + 1, Len(items)), size)

QueueNeverFull(q, maxsize) == FALSE

QueueFullOneLate(q, maxsize) == Len(q) > maxsize

\* Queue.full() of a queue created with maxsize > 0.
QueueFull(q, maxsize) == Len(q) >= maxsize

\* "if (args.resize_width is None) != (args.resize_height is None)".
ResizeWidthOnlyMissing(width, height) == width = None /\ height # None

ResizePairInvalid(width, height) == (width = None) # (height = None)

ResizeMaxPaths == 2  \* longest listing of a run that resizes

\* The state when main() starts, for one run: the arguments are parsed,
\* no name of main() is bound yet, no pool and no queue exist.
\* The pool processes are interchangeable: workers holds the state of each
\* process that has a chunk, the other num_processes - |workers| are idle.
StartRun(sc, listing, w, b, setup) ==
    /\ script = sc
    /\ frame_paths = listing
    /\ num_processes = w
    /\ batch_size = b
    /\ frames_per_second = setup.fps
    /\ annotations_json = setup.annotations_list
    /\ args_class_mapping = setup.class_mapping
    /\ args_one_indexed_labels = setup.one_indexed_labels
    /\ annotations = load_annotations_json(<<>>, None)
    /\ label_ids = <<>>
    /\ pool_state = "none"
    /\ tasks = <<>>
    /\ workers = {}
    /\ queue = <<>>
    /\ failed = {}
    /\ wpc = "start"
    /\ num_stored = 0
    /\ loaded_images = FALSE
    /\ iter = 0
    /\ held = <<>>
    /\ txn = <<>>
    /\ open_txns = 0
    /\ log = <<>>
    /\ batches = <<>>

\* remove_images_from_labeled_video_frames.main is not running.
CopyOff ==
    /\ input_lmdb = EmptyStore
    /\ output_lmdb = EmptyStore
    /\ copy_batch_size = 1
    /\ last_key = None
    /\ copy_pc = "off"
    /\ read_cursor = 0
    /\ copy_iter = 0
    /\ output_transaction = <<>>
    /\ progress = 0

\* resize_images.main is not running.
ResizeOff ==
    /\ image_paths = <<>>
    /\ output_files = <<>>
    /\ resize_processes = 1
    /\ resize_capacity = 1
    /\ resize_jobs = <<>>
    /\ resize_workers = {}
    /\ resize_queue = <<>>
    /\ resize_held = None
    /\ num_resized = 0
    /\ resize_pc = "off"

\* dump_frames is not running.
DumpOff ==
    /\ dump_video_path = <<>>
    /\ dump_fps = None
    /\ video_info = <<>>
    /\ disk_info_file = None
    /\ disk_frame_files = {}
    /\ successfully_wrote_images = FALSE
    /\ dump_pc = "off"
    /\ dump_calls = 0

\* create_train_val_split.main is not running.
SplitOff ==
    /\ annotations_by_label = <<>>
    /\ valtrain_videos = {}
    /\ valval_videos = {}
    /\ swap = None
    /\ num_valval = 0
    /\ split_log = <<>>
    /\ split_pc = "off"

ToolsOff == CopyOff /\ ResizeOff /\ DumpOff /\ SplitOff

InitPipeline ==
    /\ \E sc \in Scripts, listing \in Listings, w \in 1..MaxWorkers,
          b \in 1..MaxBatch, setup \in LabelSetups \cup {NoLabels} :
          /\ (sc = "proto") = (setup = NoLabels)
          /\ StartRun(sc, listing, w, b, setup)
    /\ resize_width \in ResizeInputs
    /\ resize_height \in ResizeInputs
    /\ (resize_width # None /\ resize_height # None)
          => Len(frame_paths) <= ResizeMaxPaths
    /\ corrupt = {}
    /\ sound = {}
    /\ store = EmptyStore
    /\ run = "first"
    /\ first_store = EmptyStore

Init ==
    /\ InitPipeline
    /\ call = <<>>
    /\ result = None
    /\ ToolsOff

\* main() from the resize check to the return of load_images_async: the
\* check raises ValueError, or the annotations are loaded (labeled script),
\* the queue is made and the pool is created with its jobs submitted.
MainStart ==
    /\ wpc = "start"
    /\ IF ResizePairInvalid(resize_width, resize_height)
       THEN /\ wpc' = "failed"
            /\ UNCHANGED <<annotations, pool_state, tasks>>
       ELSE /\ annotations' = IF script = "labeled"
                              THEN load_annotations_json(annotations_json, None)
                              ELSE annotations
            /\ pool_state' = "running"
            /\ tasks' = GetTasks(frame_paths,
                                 MapChunkSize(Len(frame_paths), num_processes))
            /\ wpc' = IF script = "labeled" THEN "catalog" ELSE "loop"
    /\ UNCHANGED <<tools, calls, inputs, label_ids, workers, queue, failed, corrupt,
                   sound, num_stored, loaded_images, iter, held, txn, log,
                   open_txns, store, batches, run, first_store>>

\* frames_to_labeled_video_frames_lmdb.main: label_ids = load_label_ids(
\* args.class_mapping, args.one_indexed_labels), the statement after
\* load_images_async.
LoadCatalog ==
    /\ wpc = "catalog"
    /\ LET loaded == script_load_label_ids(args_class_mapping,
                                           args_one_indexed_labels)
       IN IF IsRaised(loaded)
          THEN wpc' = "failed" /\ UNCHANGED label_ids
          ELSE wpc' = "loop" /\ label_ids' = loaded
    /\ UNCHANGED <<tools, calls, inputs, pool_state, annotations, pool, num_stored,
                   loaded_images, iter, held, txn, log, open_txns, store,
                   batches, run, first_store>>

\* main() has neither returned nor raised.
Running == wpc \notin {"done", "failed"}

\* An idle pool process takes the next chunk from the pool's task queue.
WorkerTake ==
    /\ Running
    /\ Cardinality(workers) < num_processes
    /\ tasks # <<>>
    /\ workers' = workers \cup {[chunk |-> Head(tasks), image |-> NoImage]}
    /\ tasks' = Tail(tasks)
    /\ UNCHANGED <<tools, calls, inputs, pool_state, annotations, label_ids, queue, failed, corrupt,
                   sound, writer, store, batches, run, first_store>>

\* load_image_async_helper up to queue.put: the image is decoded, or
\* load_image raises and map() abandons the rest of the chunk.  Whether a
\* file decodes is a property of the file, found out when it is first read.
WorkerLoad(p) ==
    /\ Running
    /\ p \in workers
    /\ p.image = NoImage
    /\ \E decodes \in BOOLEAN :
          /\ Head(p.chunk) \in sound => decodes
          /\ Head(p.chunk) \in corrupt => ~decodes
          /\ (~decodes /\ Head(p.chunk) \notin corrupt)
                => Cardinality(corrupt) < MaxCorrupt
          /\ IF decodes
             THEN /\ workers' =
                       (workers \ {p})
                       \cup {[p EXCEPT !.image =
                                load_image(Head(p.chunk), resize_height,
                                           resize_width)]}
                  /\ sound' = sound \cup {Head(p.chunk)}
                  /\ UNCHANGED <<failed, corrupt>>
             ELSE /\ workers' = workers \ {p}
                  /\ failed' = failed \cup {Head(p.chunk)}
                  /\ corrupt' = corrupt \cup {Head(p.chunk)}
                  /\ UNCHANGED sound
    /\ UNCHANGED <<tools, calls, inputs, pool_state, annotations, label_ids, tasks, queue, writer,
                   store, batches, run, first_store>>

\* queue.put((args[1], image)): waits while the queue is full.  A process
\* whose chunk is finished is idle again.
WorkerPut(p) ==
    /\ Running
    /\ p \in workers
    /\ p.image # NoImage
    /\ ~QueueFull(queue, batch_size)
    /\ queue' = Append(queue, <<Head(p.chunk), p.image>>)
    /\ workers' = (workers \ {p})
                    \cup (IF Len(p.chunk) = 1 THEN {}
                          ELSE {[chunk |-> Tail(p.chunk), image |-> NoImage]})
    /\ UNCHANGED <<tools, calls, inputs, pool_state, annotations, label_ids, tasks, failed, corrupt,
                   sound, writer, store, batches, run, first_store>>

\* ------------------------------------------------------------------------
\* The writer loop of main()
\* ------------------------------------------------------------------------
\* lmdb_transaction.put: within a transaction the last put of a key wins.
RECURSIVE ApplyPuts(_, _)
ApplyPuts(st, puts) ==
    IF Len(puts) = 0 THEN st
    ELSE LET key == Head(puts)[1]
             value == Head(puts)[2]
         IN ApplyPuts([k \in DOMAIN st \cup {key} |->
                         IF k = key THEN value ELSE st[k]], Tail(puts))

TxnExitPartial(st, puts, committed) ==
    IF committed \/ Len(puts) = 0 THEN ApplyPuts(st, puts)
    ELSE ApplyPuts(st, <<Head(puts)>>)

\* Transaction.__exit__: commit on a normal exit; when the body raised or
\* the commit fails, the transaction is aborted and nothing is written.
TxnExit(st, puts, committed) ==
    IF committed THEN ApplyPuts(st, puts) ELSE st

TxnsAfterExitLeak(count) == count

\* "with lmdb.open(...).begin(write=True) as lmdb_transaction": one more
\* write transaction is open inside the block, and leaving the block,
\* normally or by an exception, ends it.
TxnsAfterBegin(count) == count + 1

TxnsAfterExit(count) == count - 1

AllStoredOffByOne(stored, total) == stored + 1 >= total

\* "if num_stored >= num_paths"
AllStored(stored, total) == stored >= total

\* "for _ in range(batch_size)" has no iteration left.
BatchFull(done, size) == done >= size

LogLinesEveryPass(lines, breaks) == Append(lines, "Output frames to")

\* logging.info('Output frames to %s.', ...) is the statement after the
\* "while True" loop: it runs when the loop is left by its break.
LogLines(lines, breaks) ==
    IF breaks THEN Append(lines, "Output frames to") ELSE lines

\* "while True: if loaded_images: break", else the next transaction opens.
\* frames_to_labeled_video_frames_lmdb logs after the loop.
WriterLoop ==
    /\ wpc = "loop"
    /\ log' = IF script = "labeled" THEN LogLines(log, loaded_images) ELSE log
    /\ IF loaded_images
       THEN /\ wpc' = "done"
            /\ UNCHANGED <<iter, txn, open_txns>>
       ELSE /\ wpc' = IF script = "proto" THEN "count" ELSE "get"
            /\ iter' = 0
            /\ txn' = <<>>
            /\ open_txns' = TxnsAfterBegin(open_txns)
    /\ UNCHANGED <<tools, calls, inputs, pool_state, annotations, label_ids, pool, num_stored,
                   loaded_images, held, store, batches, run, first_store>>

\* frames_to_video_frames_proto_lmdb: num_stored is counted, and compared
\* with num_paths, at the top of each iteration, before queue.get().
ProtoCount ==
    /\ wpc = "count"
    /\ script = "proto"
    /\ num_stored' = num_stored + 1
    /\ IF AllStored(num_stored', num_paths)
       THEN /\ loaded_images' = TRUE
            /\ wpc' = "commit"
       ELSE /\ wpc' = "get"
            /\ UNCHANGED loaded_images
    /\ UNCHANGED <<tools, calls, inputs, pool_state, annotations, label_ids, pool,
                   iter, held, txn, open_txns, log, store, batches, run,
                   first_store>>

\* frame_path, image_array = queue.get(): waits while the queue is empty.
WriterGet ==
    /\ wpc = "get"
    /\ queue # <<>>
    /\ held' = Head(queue)
    /\ queue' = Tail(queue)
    /\ wpc' = "got"
    /\ UNCHANGED <<tools, calls, inputs, pool_state, annotations, label_ids, tasks,
                   workers, failed, corrupt, sound, num_stored, loaded_images,
                   iter, txn, open_txns, log, store, batches, run,
                   first_store>>

\* The value main() serialises for a dequeued frame; unpacking the None of
\* an unparsable path raises TypeError.
BuildRecord(frame_path, image_array) ==
    LET info == parse_frame_path(frame_path)
        image == image_array_to_proto(image_array)
    IN IF info = None THEN Raised("TypeError")
       ELSE IF script = "proto"
       THEN create_video_frame(info[1], info[2], image)
       ELSE create_labeled_frame(
                info[1], info[2], image,
                collect_frame_labels(DefaultDictGet(annotations, info[1]),
                                     info[2] - 1, frames_per_second),
                label_ids)

\* From image_array_to_proto to the end of the loop body: build the record,
\* put it under its key, and decide how the for loop goes on.
WriterPut ==
    /\ wpc = "got"
    /\ LET frame_path == held[1]
           info == parse_frame_path(frame_path)
           record == BuildRecord(frame_path, held[2])
       IN IF IsRaised(record)
          THEN /\ wpc' = "failed"
               /\ store' = TxnExit(store, txn, FALSE)
               /\ open_txns' = TxnsAfterExit(open_txns)
               /\ annotations' =
                    IF info # None /\ script = "labeled"
                    THEN DefaultDictTouch(annotations, info[1])
                    ELSE annotations
               /\ UNCHANGED <<num_stored, loaded_images, iter, held, txn>>
          ELSE /\ txn' = Append(txn, <<FrameKey(info[1], info[2]), record>>)
               /\ annotations' =
                    IF script = "labeled"
                    THEN DefaultDictTouch(annotations, info[1])
                    ELSE annotations
               /\ held' = <<>>
               /\ iter' = iter + 1
               /\ UNCHANGED <<store, open_txns>>
               /\ IF script = "labeled"
                  THEN /\ num_stored' = num_stored + 1
                       /\ loaded_images' =
                            (loaded_images
                               \/ AllStored(num_stored', num_paths))
                       /\ wpc' = IF \/ AllStored(num_stored', num_paths)
                                    \/ BatchFull(iter', batch_size)
                                 THEN "commit" ELSE "get"
                  ELSE /\ UNCHANGED <<num_stored, loaded_images>>
                       /\ wpc' = IF BatchFull(iter', batch_size)
                                 THEN "commit" ELSE "count"
    /\ UNCHANGED <<tools, calls, inputs, pool_state, label_ids, pool, log, batches, run,
                   first_store>>

\* The "with" block of a batch is left normally: the transaction commits,
\* or the commit fails (I/O error, map full) and the run aborts.
WriterCommit ==
    /\ wpc = "commit"
    /\ \E committed \in BOOLEAN :
          /\ store' = TxnExit(store, txn, committed)
          /\ open_txns' = TxnsAfterExit(open_txns)
          /\ IF committed
             THEN /\ batches' = Append(batches, txn)
                  /\ txn' = <<>>
                  /\ wpc' = "loop"
             ELSE /\ wpc' = "failed"
                  /\ UNCHANGED <<batches, txn>>
    /\ UNCHANGED <<tools, calls, inputs, pool_state, annotations, label_ids, pool, num_stored,
                   loaded_images, iter, held, log, run, first_store>>

\* A new process, a new pool and a new queue for the same command line.
Restart ==
    /\ annotations' = load_annotations_json(<<>>, None)
    /\ label_ids' = <<>>
    /\ pool_state' = "none"
    /\ tasks' = <<>>
    /\ workers' = {}
    /\ queue' = <<>>
    /\ failed' = {}
    /\ wpc' = "start"
    /\ num_stored' = 0
    /\ loaded_images' = FALSE
    /\ iter' = 0
    /\ held' = <<>>
    /\ txn' = <<>>
    /\ open_txns' = 0
    /\ log' = <<>>
    /\ batches' = <<>>
    /\ UNCHANGED <<tools, calls, inputs, corrupt, sound>>

\* The same command is run again on the unchanged inputs and the store the
\* first run left.
Rerun ==
    /\ wpc = "done"
    /\ run = "first"
    /\ run' = "again"
    /\ first_store' = store
    /\ UNCHANGED store
    /\ Restart

\* The same command is run on the unchanged inputs with a new, empty
\* output store.
RunOnFreshStore ==
    /\ wpc = "done"
    /\ run = "first"
    /\ run' = "fresh"
    /\ first_store' = store
    /\ store' = EmptyStore
    /\ Restart

Next ==
    \/ MainStart
    \/ LoadCatalog
    \/ WorkerTake
    \/ \E p \in workers : WorkerLoad(p)
    \/ \E p \in workers : WorkerPut(p)
    \/ WriterLoop
    \/ ProtoCount
    \/ WriterGet
    \/ WriterPut
    \/ WriterCommit

Spec == Init /\ [][Next]_vars

\* Two consecutive runs against the same output store.
RerunMaxPaths == 3

InitRerun == Init /\ num_paths <= RerunMaxPaths

NextRerun == Next \/ Rerun \/ RunOnFreshStore

SpecRerun == InitRerun /\ [][NextRerun]_vars

\* ------------------------------------------------------------------------
\* Calls of the library functions (frame_loader_util.py, util/annotation.py)
\* ------------------------------------------------------------------------
MaxTail == 2         \* most characters after the prefix of a file stem

pipeline == <<inputs, pool_state, annotations, label_ids, pool, writer,
              store, batches, run, first_store>>

RECURSIVE SeqsUpTo(_, _)
SeqsUpTo(chars, n) ==
    IF n = 0 THEN {<<>>}
    ELSE LET shorter == SeqsUpTo(chars, n - 1)
         IN shorter \cup {Append(t, c) : t \in shorter, c \in chars}

\* Directory names: none (a file directly under '/'), or a video name.
VideoNameInputs == {"", "A", "video_1234"}

\* File stems: the prefix, a wrong or damaged prefix, or none, followed by
\* digits and other characters.
StemInputs ==
    {head \o tail :
       head \in {frame_prefix, <<"f", "r", "a", "m">>, <<"i", "m", "g">>,
                 <<>>},
       tail \in SeqsUpTo({"0", "1", "2", "-", "\n"}, MaxTail)}

PathInputs == [video : VideoNameInputs, stem : StemInputs]

CallParseFramePath ==
    /\ call = <<>>
    /\ \E frame_path \in PathInputs :
          /\ call' = <<"parse_frame_path", frame_path>>
          /\ result' = parse_frame_path(frame_path)
    /\ UNCHANGED <<pipeline, tools>>

CallFramePathToKey ==
    /\ call = <<>>
    /\ \E frame_path \in PathInputs :
          /\ call' = <<"frame_path_to_key", frame_path>>
          /\ result' = frame_path_to_key(frame_path)
    /\ UNCHANGED <<pipeline, tools>>

MaxTime == 2         \* latest second an annotation starts or ends at
MaxRate == 2         \* largest frames_per_second and frame_step

\* An annotation of the file "A" recorded at 2 frames per second.
AnnotationOf(start, end, category) ==
    [filename |-> "A", start_frame |-> 2 * start, end_frame |-> 2 * end,
     start_seconds |-> start, end_seconds |-> end,
     frames_per_second |-> 2, category |-> category]

AnnotationInputs ==
    {AnnotationOf(start, end, category) :
       start \in 0..MaxTime, end \in 0..MaxTime,
       category \in {"run", "walk"}}

\* The annotations of one file: none, one or two.
FileAnnotationInputs ==
    {<<>>} \cup {<<a>> : a \in AnnotationInputs}
           \cup {<<a, b>> : a \in AnnotationInputs, b \in AnnotationInputs}

\* An optional rate: None when the argument is left out.
RateInputs == {None} \cup {<<rate>> : rate \in 1..MaxRate}

CallCollectFrameLabels ==
    /\ call = <<>>
    /\ \E file_annotations \in FileAnnotationInputs,
          frame_index \in 0..(2 * MaxTime),
          fps \in RateInputs, frame_step \in RateInputs :
          /\ call' = <<"collect_frame_labels", file_annotations,
                       frame_index, fps, frame_step>>
          /\ result' = annotation_collect_frame_labels(
                           file_annotations, frame_index, fps, frame_step)
    /\ UNCHANGED <<pipeline, tools>>

MaxLines == 2        \* most lines of a class mapping file

\* A class mapping file: its lines "<label_id> <label>", in order.
CatalogInputs ==
    LET line == [id : 0..MaxLines, label : {"jump", "run", "walk"}]
    IN UNION {[1..n -> line] : n \in 0..MaxLines}

CallLoadLabelIds ==
    /\ call = <<>>
    /\ \E lines \in CatalogInputs, one_indexed_labels \in BOOLEAN :
          /\ call' = <<"load_label_ids", lines, one_indexed_labels>>
          /\ result' = load_label_ids(lines, one_indexed_labels)
    /\ UNCHANGED <<pipeline, tools>>

\* The tokens of a catalog line: an id and a category of one or two words.
DetailsInputs ==
    LET words == {"high", "jump", "run"} IN
    {<<id, w>> : id \in 0..MaxLines, w \in words}
    \cup {<<id, v, w>> : id \in 0..MaxLines, v \in words, w \in words}

\* Class mapping files of one or two lines.
ClassMappingInputs ==
    {<<a>> : a \in DetailsInputs}
    \cup {<<a, b>> : a \in DetailsInputs, b \in DetailsInputs}

CallUtilLoadLabelIds ==
    /\ call = <<>>
    /\ \E class_mapping \in ClassMappingInputs,
          one_indexed_labels \in BOOLEAN :
          /\ call' = <<"util.load_label_ids", class_mapping,
                       one_indexed_labels>>
          /\ result' = util_load_label_ids(class_mapping, one_indexed_labels)
    /\ UNCHANGED <<pipeline, tools>>

CallScriptLoadLabelIds ==
    /\ call = <<>>
    /\ \E class_mapping \in ClassMappingInputs,
          one_indexed_labels \in BOOLEAN :
          /\ call' = <<"script.load_label_ids", class_mapping,
                       one_indexed_labels>>
          /\ result' = script_load_label_ids(class_mapping,
                                             one_indexed_labels)
    /\ UNCHANGED <<pipeline, tools>>

MaxHalves == 5       \* longest video duration, in half seconds
MaxFrameFile == 3    \* largest index of a frame file on disk

VideoPathInputs ==
    {[absolute |-> TRUE, parts |-> <<"d", "v.mp4">>],
     [absolute |-> TRUE, parts |-> <<"e", "v.mp4">>],
     [absolute |-> FALSE, parts |-> <<"v.mp4">>]}

\* The info.json of an output directory: absent, or what an earlier run
\* wrote.
InfoFileInputs ==
    {None} \cup {<<[frames_per_second |-> rate, input_video_path |-> video]>> :
                   rate \in 1..MaxRate, video \in VideoPathInputs}

CallFramesAlreadyDumped ==
    /\ call = <<>>
    /\ \E video_path \in VideoPathInputs, info_file \in InfoFileInputs,
          frame_files \in SUBSET (0..MaxFrameFile), rate \in 1..MaxRate,
          duration \in 0..MaxHalves :
          /\ call' = <<"frames_already_dumped", video_path, info_file,
                       frame_files, rate, duration>>
          /\ result' = frames_already_dumped(video_path, info_file,
                                             frame_files, rate, duration)
    /\ UNCHANGED <<pipeline, tools>>

\* An annotations JSON file: up to three annotations of the files A and B.
AnnotationsJsonInputs ==
    LET entries == {[AnnotationOf(start, MaxTime, category)
                       EXCEPT !.filename = filename] :
                      start \in 0..1, category \in {"run", "walk"},
                      filename \in {"A", "B"}}
    IN UNION {[1..n -> entries] : n \in 0..3}

CallLoadAnnotationsJson ==
    /\ call = <<>>
    /\ \E annotations_list \in AnnotationsJsonInputs,
          filter_category \in {None, <<"run">>, <<"walk">>, <<"jump">>} :
          /\ call' = <<"load_annotations_json", annotations_list,
                       filter_category>>
          /\ result' = load_annotations_json(annotations_list,
                                             filter_category)
    /\ UNCHANGED <<pipeline, tools>>

MaxFrameHalves == 4  \* largest start_frame and end_frame, in half frames
MaxNumFrames == 3    \* largest num_frames

\* int(x) of a non-negative number given in halves: the fraction is cut.
PyIntOfHalves(halves) == halves \div 2

\* in_annotation: annotation.start_frame <= frame_index <=
\* annotation.end_frame, the two frame numbers of the annotation being
\* JSON numbers, given in half frames.
in_annotation(annotation, frame_index) ==
    /\ annotation.start_frame <= 2 * frame_index
    /\ 2 * frame_index <= annotation.end_frame

\* annotations_to_frame_labels: ValueError for more than one filename or
\* category; else the (1, num_frames) array that is 1 on the slices
\* [int(start_frame) : int(end_frame) + 1].
annotations_to_frame_labels(annotation_list, num_frames) ==
    LET entries == 1..Len(annotation_list) IN
    IF Cardinality({annotation_list[i].filename : i \in entries}) > 1
    THEN Raised("ValueError")
    ELSE IF Cardinality({annotation_list[i].category : i \in entries}) > 1
    THEN Raised("ValueError")
    ELSE [shape |-> <<1, num_frames>>,
          row |-> [position \in 1..num_frames |->
                     IF \E i \in entries :
                           /\ PyIntOfHalves(annotation_list[i].start_frame)
                                <= position - 1
                           /\ position - 1
                                < PyIntOfHalves(annotation_list[i].end_frame)
                                    + 1
                     THEN 1 ELSE 0]]

\* Annotations with 0 <= start_frame <= end_frame, in half frames.
FrameAnnotationInputs ==
    {[filename |-> filename, category |-> category,
      start_frame |-> first, end_frame |-> last] :
       filename \in {"A", "B"}, category \in {"run", "walk"},
       first \in 0..MaxFrameHalves, last \in 0..MaxFrameHalves}
    \ {a \in [filename : {"A", "B"}, category : {"run", "walk"},
               start_frame : 0..MaxFrameHalves,
               end_frame : 0..MaxFrameHalves] :
          a.start_frame > a.end_frame}

CallAnnotationsToFrameLabels ==
    /\ call = <<>>
    /\ \E annotation_list \in
             {<<>>} \cup {<<a>> : a \in FrameAnnotationInputs}
                    \cup {<<a, b>> : a \in FrameAnnotationInputs,
                                     b \in FrameAnnotationInputs},
          num_frames \in 0..MaxNumFrames :
          /\ call' = <<"annotations_to_frame_labels", annotation_list,
                       num_frames>>
          /\ result' = annotations_to_frame_labels(annotation_list,
                                                   num_frames)
    /\ UNCHANGED <<pipeline, tools>>

\* An interpreter in which no pipeline runs and one library function is
\* called.
InitUtil ==
    /\ Init
    /\ script = "proto"
    /\ frame_paths = <<>>
    /\ num_processes = 1
    /\ batch_size = 1
    /\ resize_width = None
    /\ resize_height = None

NextUtil ==
    \/ CallParseFramePath
    \/ CallFramePathToKey
    \/ CallCollectFrameLabels
    \/ CallLoadLabelIds
    \/ CallUtilLoadLabelIds
    \/ CallScriptLoadLabelIds
    \/ CallFramesAlreadyDumped
    \/ CallLoadAnnotationsJson
    \/ CallAnnotationsToFrameLabels

SpecUtil == InitUtil /\ [][NextUtil]_vars

\* The pipeline and the library calls at rest, while another script runs.
PipelineOff ==
    /\ InitPipeline
    /\ script = "proto"
    /\ frame_paths = <<>>
    /\ num_processes = 1
    /\ batch_size = 1
    /\ resize_width = None
    /\ resize_height = None
    /\ call = <<>>
    /\ result = None

\* ------------------------------------------------------------------------
\* remove_images_from_labeled_video_frames.py
\* ------------------------------------------------------------------------
MaxEntries == 4      \* most entries of the input store
MaxCopyBatch == 3    \* largest batch_size of the copy
MaxProgress == 8     \* the copy is followed for this many puts

\* The keys of the input store are 1..n in key order; the value under a key
\* is a serialised LabeledVideoFrame with image bytes.
InputFrame(key) ==
    [frame |-> create_video_frame(
                   "A", key,
                   [channels |-> 1, height |-> 1, width |-> 1,
                    data |-> <<key>>]),
     label |-> <<>>]

InputStore(n) == [key \in 1..n |-> InputFrame(key)]

num_entries == Cardinality(DOMAIN input_lmdb)

\* ParseFromString, video_frame.frame.image.data = '', SerializeToString.
remove_image(value) == [value EXCEPT !.frame.image.data = <<>>]

\* read_cursor.set_key(last_key); read_cursor.next(): the cursor is on the
\* key after last_key, or is no longer positioned (0) when last_key is the
\* last key of the store.
CursorAfter(key, entries) == IF key < entries THEN key + 1 ELSE 0

\* read_cursor.iternext(): a cursor that is not positioned is moved to the
\* first key of the store (Cursor.iternext of py-lmdb calls first() then);
\* on an empty store it stays without a key.
IterNextStart(position, entries) ==
    IF position # 0 THEN position
    ELSE IF entries > 0 THEN 1 ELSE 0

\* write_imageless_frames_batch up to "cursor_iterator =
\* read_cursor.iternext()": both environments are opened and the cursor is
\* positioned.
CopyCall ==
    /\ copy_pc = "call"
    /\ progress < MaxProgress
    /\ read_cursor' =
          IterNextStart(IF last_key = None THEN 0
                        ELSE CursorAfter(last_key[1], num_entries),
                        num_entries)
    /\ copy_iter' = 0
    /\ output_transaction' = <<>>
    /\ copy_pc' = "iterate"
    /\ UNCHANGED <<pipeline, calls, not_copier, input_lmdb, output_lmdb,
                   copy_batch_size, last_key, progress>>

\* One iteration of "for i in range(batch_size)": the next item of the
\* cursor is stripped of its image bytes and put under its key.
CopyPut ==
    /\ copy_pc = "iterate"
    /\ copy_iter < copy_batch_size
    /\ read_cursor # 0
    /\ output_transaction' =
          Append(output_transaction,
                 <<read_cursor, remove_image(input_lmdb[read_cursor])>>)
    /\ progress' = progress + 1
    /\ copy_iter' = copy_iter + 1
    /\ read_cursor' = CursorAfter(read_cursor, num_entries)
    /\ UNCHANGED <<pipeline, calls, not_copier, input_lmdb, output_lmdb,
                   copy_batch_size, last_key, copy_pc>>

\* next(cursor_iterator) raises StopIteration: the function returns None
\* from inside the "with" block, the transaction commits, and main() leaves
\* its loop.
CopyStopIteration ==
    /\ copy_pc = "iterate"
    /\ copy_iter < copy_batch_size
    /\ read_cursor = 0
    /\ output_lmdb' = ApplyPuts(output_lmdb, output_transaction)
    /\ output_transaction' = <<>>
    /\ last_key' = None
    /\ copy_pc' = "done"
    /\ UNCHANGED <<pipeline, calls, not_copier, input_lmdb, copy_batch_size,
                   read_cursor, copy_iter, progress>>

\* The for loop ran batch_size times: the transaction commits, the
\* function returns the key of the last item, and main() calls again.
CopyReturnKey ==
    /\ copy_pc = "iterate"
    /\ copy_iter = copy_batch_size
    /\ output_lmdb' = ApplyPuts(output_lmdb, output_transaction)
    /\ last_key' = <<output_transaction[Len(output_transaction)][1]>>
    /\ output_transaction' = <<>>
    /\ copy_pc' = "call"
    /\ UNCHANGED <<pipeline, calls, not_copier, input_lmdb, copy_batch_size,
                   read_cursor, copy_iter, progress>>

InitCopy ==
    /\ PipelineOff
    /\ ResizeOff
    /\ DumpOff
    /\ SplitOff
    /\ \E n \in 0..MaxEntries : input_lmdb = InputStore(n)
    /\ output_lmdb = EmptyStore
    /\ copy_batch_size \in 1..MaxCopyBatch
    /\ last_key = None
    /\ copy_pc = "call"
    /\ read_cursor = 0
    /\ copy_iter = 0
    /\ output_transaction = <<>>
    /\ progress = 0

NextCopy ==
    \/ CopyCall
    \/ CopyPut
    \/ CopyStopIteration
    \/ CopyReturnKey

SpecCopy == InitCopy /\ [][NextCopy]_vars

\* ------------------------------------------------------------------------
\* resize_images.py
\* ------------------------------------------------------------------------
MaxImages == 3       \* most frames without a resized copy
MaxResizeWorkers == 2
MaxResizeQueue == 2  \* largest maxsize of the queue
MaxExternal == 1     \* output files another process creates meanwhile

\* resize_image: the resized PIL image of a frame.
resize_image(image_path) == [resized |-> image_path]

\* What another process wrote to an output path.
ExternalFile == [external |-> TRUE]

\* A pool process takes the next chunk of jobs.
ResizeWorkerTake ==
    /\ resize_pc \in {"get", "got"}
    /\ resize_jobs # <<>>
    /\ Cardinality(resize_workers) < resize_processes
    /\ [chunk |-> Head(resize_jobs), image |-> NoImage] \notin resize_workers
    /\ resize_workers' =
          resize_workers \cup {[chunk |-> Head(resize_jobs), image |-> NoImage]}
    /\ resize_jobs' = Tail(resize_jobs)
    /\ UNCHANGED <<pipeline, calls, not_resizer, image_paths, output_files,
                   resize_processes, resize_capacity, resize_queue,
                   resize_held, num_resized, resize_pc>>

\* resize_image_async_helper: image = resize_image(*args[1:]).
ResizeWorkerResize(p) ==
    /\ resize_pc \in {"get", "got"}
    /\ p \in resize_workers
    /\ p.image = NoImage
    /\ resize_workers' =
          (resize_workers \ {p})
          \cup {[p EXCEPT !.image = resize_image(Head(p.chunk))]}
    /\ UNCHANGED <<pipeline, calls, not_resizer, image_paths, output_files,
                   resize_processes, resize_capacity, resize_jobs,
                   resize_queue, resize_held, num_resized, resize_pc>>

\* queue.put((args[1], image)): waits while the queue is full.
ResizeWorkerPut(p) ==
    /\ resize_pc \in {"get", "got"}
    /\ p \in resize_workers
    /\ p.image # NoImage
    /\ ~QueueFull(resize_queue, resize_capacity)
    /\ resize_queue' = Append(resize_queue, <<Head(p.chunk), p.image>>)
    /\ resize_workers' =
          (resize_workers \ {p})
          \cup (IF Len(p.chunk) = 1 THEN {}
                ELSE {[chunk |-> Tail(p.chunk), image |-> NoImage]})
    /\ UNCHANGED <<pipeline, calls, not_resizer, image_paths, output_files,
                   resize_processes, resize_capacity, resize_jobs,
                   resize_held, num_resized, resize_pc>>

\* frame_path, resized_image = queue.get(): waits while the queue is
\* empty.
ResizeGet ==
    /\ resize_pc = "get"
    /\ resize_queue # <<>>
    /\ resize_held' = <<Head(resize_queue)>>
    /\ resize_queue' = Tail(resize_queue)
    /\ resize_pc' = "got"
    /\ UNCHANGED <<pipeline, calls, not_resizer, image_paths, output_files,
                   resize_processes, resize_capacity, resize_jobs,
                   resize_workers, num_resized>>

\* The rest of the loop body: an output file that exists is skipped with
\* "continue", which does not count it; else the image is saved and
\* counted, and the loop ends when num_resized == len(image_paths).
ResizeSave ==
    /\ resize_pc = "got"
    /\ LET frame_path == resize_held[1][1]
           resized_image == resize_held[1][2]
       IN IF frame_path \in DOMAIN output_files
          THEN /\ resize_pc' = "get"
               /\ UNCHANGED <<output_files, num_resized>>
          ELSE /\ output_files' = output_files @@ (frame_path :> resized_image)
               /\ num_resized' = num_resized + 1
               /\ resize_pc' = IF num_resized' = Len(image_paths)
                                THEN "done" ELSE "get"
    /\ resize_held' = None
    /\ UNCHANGED <<pipeline, calls, not_resizer, image_paths,
                   resize_processes, resize_capacity, resize_jobs,
                   resize_workers, resize_queue>>

\* Another process (an earlier or concurrent run) creates the output file
\* of a frame after the filtering.
ExternalCreate(frame_path) ==
    /\ resize_pc \in {"get", "got"}
    /\ frame_path \notin DOMAIN output_files
    /\ Cardinality({f \in DOMAIN output_files :
                      output_files[f] = ExternalFile}) < MaxExternal
    /\ output_files' = output_files @@ (frame_path :> ExternalFile)
    /\ UNCHANGED <<pipeline, calls, not_resizer, image_paths,
                   resize_processes, resize_capacity, resize_jobs,
                   resize_workers, resize_queue, resize_held, num_resized,
                   resize_pc>>

\* The state right after resize_images_async returned: image_paths holds
\* the frames without an output file, every job is submitted.
InitResize ==
    /\ PipelineOff
    /\ CopyOff
    /\ DumpOff
    /\ SplitOff
    /\ \E n \in 0..MaxImages : image_paths = [i \in 1..n |-> i]
    /\ output_files = <<>>
    /\ resize_processes \in 1..MaxResizeWorkers
    /\ resize_capacity \in 1..MaxResizeQueue
    /\ resize_jobs = GetTasks(image_paths,
                              MapChunkSize(Len(image_paths), resize_processes))
    /\ resize_workers = {}
    /\ resize_queue = <<>>
    /\ resize_held = None
    /\ num_resized = 0
    /\ resize_pc = "get"

NextResize ==
    \/ ResizeWorkerTake
    \/ \E p \in resize_workers : ResizeWorkerResize(p)
    \/ \E p \in resize_workers : ResizeWorkerPut(p)
    \/ ResizeGet
    \/ ResizeSave
    \/ \E frame_path \in 1..Len(image_paths) : ExternalCreate(frame_path)

SpecResize == InitResize /\ [][NextResize]_vars

\* ------------------------------------------------------------------------
\* dump_frames.py: dump_frames for one video
\* ------------------------------------------------------------------------
MaxDumpCalls == 2    \* runs of dump_frames on the same video

\* ffmpeg_parse_infos: the metadata (the duration in half seconds), or the
\* exception it raises.
VideoInfoInputs ==
    {Raised("OSError"), Raised("KeyError")}
    \cup {[video_fps |-> rate, duration |-> halves] :
            rate \in 1..MaxRate, halves \in 0..MaxHalves}

\* "if extract_all_frames: frames_per_second = video_fps"
DumpRate == IF dump_fps = None THEN video_info.video_fps ELSE dump_fps[1]

\* frames_already_dumped_helper
frames_already_dumped_helper ==
    frames_already_dumped(dump_video_path, disk_info_file, disk_frame_files,
                          DumpRate, video_info.duration)

MarkerWrittenAlways(success) == TRUE

\* "if successfully_wrote_images:" guards the write of info.json.
MarkerWritten(success) == success

\* dump_frames up to the first frames_already_dumped check: a video whose
\* metadata cannot be read is skipped, and so is one already dumped.
DumpStart ==
    /\ dump_pc = "start"
    /\ dump_pc' = IF IsRaised(video_info) THEN "unreadable"
                  ELSE IF frames_already_dumped_helper THEN "skipped"
                  ELSE "extract"
    /\ successfully_wrote_images' = FALSE
    /\ UNCHANGED <<pipeline, calls, not_dumper, dump_video_path, dump_fps,
                   video_info, disk_info_file, disk_frame_files, dump_calls>>

\* subprocess.check_output(cmd): ffmpeg writes frame0001.png, ... and
\* exits with status 0, exits with an error (CalledProcessError is
\* caught), or the process is interrupted (KeyboardInterrupt leaves
\* dump_frames).
DumpExtract ==
    /\ dump_pc = "extract"
    /\ \E written \in 0..MaxFrameFile,
          outcome \in {"ok", "error", "interrupt"} :
          /\ disk_frame_files' = disk_frame_files \cup (1..written)
          /\ successfully_wrote_images' = (outcome = "ok")
          /\ dump_pc' = IF outcome = "interrupt" THEN "interrupted"
                        ELSE "mark"
    /\ UNCHANGED <<pipeline, calls, not_dumper, dump_video_path, dump_fps,
                   video_info, disk_info_file, dump_calls>>

\* After the try block: info.json is written if the extraction succeeded;
\* the second check only logs.
DumpMark ==
    /\ dump_pc = "mark"
    /\ disk_info_file' =
          IF MarkerWritten(successfully_wrote_images)
          THEN <<[frames_per_second |-> DumpRate,
                  input_video_path |-> os_path_abspath(dump_video_path)]>>
          ELSE disk_info_file
    /\ dump_pc' = IF successfully_wrote_images THEN "written" ELSE "failed"
    /\ UNCHANGED <<pipeline, calls, not_dumper, dump_video_path, dump_fps,
                   video_info, disk_frame_files, successfully_wrote_images,
                   dump_calls>>

DumpEnded == {"unreadable", "skipped", "written", "failed", "interrupted"}

\* A later run of the script calls dump_frames for the same video again.
DumpAgain ==
    /\ dump_pc \in DumpEnded
    /\ dump_calls < MaxDumpCalls
    /\ dump_calls' = dump_calls + 1
    /\ dump_pc' = "start"
    /\ UNCHANGED <<pipeline, calls, not_dumper, dump_video_path, dump_fps,
                   video_info, disk_info_file, disk_frame_files,
                   successfully_wrote_images>>

\* The output directory is new, or holds what an earlier run for this
\* video left: frames from 1 on, and possibly its info.json.
InitDump ==
    /\ PipelineOff
    /\ CopyOff
    /\ ResizeOff
    /\ SplitOff
    /\ dump_video_path \in VideoPathInputs
    /\ dump_fps \in RateInputs
    /\ video_info \in VideoInfoInputs
    /\ disk_info_file \in
          {None} \cup {<<[frames_per_second |-> rate,
                          input_video_path |->
                              os_path_abspath(dump_video_path)]>> :
                         rate \in 1..MaxRate}
    /\ \E written \in 0..MaxFrameFile : disk_frame_files = 1..written
    /\ successfully_wrote_images = FALSE
    /\ dump_pc = "start"
    /\ dump_calls = 1

NextDump == DumpStart \/ DumpExtract \/ DumpMark \/ DumpAgain

SpecDump == InitDump /\ [][NextDump]_vars

\* ------------------------------------------------------------------------
\* create_train_val_split.py
\* ------------------------------------------------------------------------
MaxSplitFiles == 4       \* annotated files (named 1, 2, ...)
MaxLabelAnnotations == 3 \* most annotations of one label

\* set(x.filename for x in annotations); an annotation of a label is
\* given by its filename.
FilenamesOf(label_annotations) ==
    {label_annotations[i] : i \in 1..Len(label_annotations)}

InsertionOrder(items) == items

\* sorted(annotations_by_label.items(), key=len(v), reverse=True): by
\* descending number of annotations; the sort is stable, so labels with
\* as many annotations keep their order.
RECURSIVE label_annotations_length_sorted(_)
label_annotations_length_sorted(items) ==
    IF items = <<>> THEN <<>>
    ELSE LET first ==
                 CHOOSE i \in 1..Len(items) :
                     /\ \A j \in 1..Len(items) :
                           Len(items[j].annotations)
                             <= Len(items[i].annotations)
                     /\ \A j \in 1..(i - 1) :
                           Len(items[j].annotations)
                             < Len(items[i].annotations)
         IN <<items[first]>>
            \o label_annotations_length_sorted(
                   SubSeq(items, 1, first - 1)
                   \o SubSeq(items, first + 1, Len(items)))

\* An outcome of split_constraint_fix: the swap pair it returns (None or
\* <<valtrain video, valval video>>), the label it logs, or the exception
\* it raises.
FixOutcome(swap_pair, label, exception) ==
    [swap_pair |-> swap_pair, logged |-> label, raised |-> exception]

\* The for loop of split_constraint_fix over the sorted labels;
\* random.choice is any element, and raises IndexError on an empty tuple.
RECURSIVE ConstraintLoop(_, _, _)
ConstraintLoop(sorted, valtrain, valval) ==
    IF sorted = <<>> THEN {FixOutcome(None, None, None)}
    ELSE LET label == sorted[1].label
             filenames == FilenamesOf(sorted[1].annotations)
         IN IF Cardinality(filenames) < 2
            THEN {FixOutcome(None, None, <<"Exception">>)}
            ELSE IF filenames \cap valtrain = {}
            THEN IF valtrain = {}
                 THEN {FixOutcome(None, None, <<"IndexError">>)}
                 ELSE {FixOutcome(<<a, b>>, <<label>>, None) :
                         a \in valtrain, b \in filenames}
            ELSE IF filenames \cap valval = {}
            THEN IF valval = {}
                 THEN {FixOutcome(None, None, <<"IndexError">>)}
                 ELSE {FixOutcome(<<a, b>>, <<label>>, None) :
                         a \in filenames, b \in valval}
            ELSE ConstraintLoop(Tail(sorted), valtrain, valval)

\* split_constraint_fix: the outcomes it can have.
split_constraint_fix(by_label, valtrain, valval) ==
    ConstraintLoop(label_annotations_length_sorted(by_label), valtrain,
                   valval)

SwapIntoKeeping(videos, out, in) == videos \cup {in}

\* videos.remove(out); videos.add(in)
SwapInto(videos, out, in) == (videos \ {out}) \cup {in}

\* "swap = split_constraint_fix(...); if swap is None: break"
SplitFix ==
    /\ split_pc = "fix"
    /\ \E outcome \in split_constraint_fix(annotations_by_label,
                                            valtrain_videos, valval_videos) :
          IF outcome.raised # None
          THEN /\ split_pc' = "failed"
               /\ UNCHANGED <<swap, split_log>>
          ELSE /\ swap' = outcome.swap_pair
               /\ split_log' = IF outcome.logged = None THEN split_log
                               ELSE outcome.logged
               /\ split_pc' = IF outcome.swap_pair = None
                               THEN "done" ELSE "swap"
    /\ UNCHANGED <<pipeline, calls, not_splitter, annotations_by_label,
                   valtrain_videos, valval_videos, num_valval>>

\* The four set operations after the call; set.remove raises KeyError
\* for a video that is not in the set.
SplitSwap ==
    /\ split_pc = "swap"
    /\ IF swap[1] \notin valtrain_videos
       THEN /\ split_pc' = "failed"
            /\ UNCHANGED <<valtrain_videos, valval_videos>>
       ELSE /\ valtrain_videos' = SwapInto(valtrain_videos, swap[1], swap[2])
            /\ IF swap[2] \notin valval_videos
               THEN /\ split_pc' = "failed"
                    /\ UNCHANGED valval_videos
               ELSE /\ valval_videos' =
                         SwapInto(valval_videos, swap[2], swap[1])
                    /\ split_pc' = "fix"
    /\ UNCHANGED <<pipeline, calls, not_splitter, annotations_by_label,
                   swap, num_valval, split_log>>

\* The annotations of one label: at most MaxLabelAnnotations, listed by
\* file.
LabelAnnotationInputs ==
    {t \in UNION {[1..n -> 1..MaxSplitFiles] :
                    n \in 1..MaxLabelAnnotations} :
       \A i \in 1..(Len(t) - 1) : t[i] <= t[i + 1]}

\* annotations_by_label for one or two labels.
ByLabelInputs ==
    {<<[label |-> "run", annotations |-> r]>> : r \in LabelAnnotationInputs}
    \cup {<<[label |-> "run", annotations |-> r],
            [label |-> "walk", annotations |-> w]>> :
            r \in LabelAnnotationInputs, w \in LabelAnnotationInputs}

\* The annotated filenames (the keys of val_annotations).
AllFilenames ==
    UNION {FilenamesOf(annotations_by_label[i].annotations) :
             i \in 1..Len(annotations_by_label)}

\* The state before the swap loop: the shuffled filenames are cut into
\* the first num_valval and the rest.
InitSplit ==
    /\ PipelineOff
    /\ CopyOff
    /\ ResizeOff
    /\ DumpOff
    /\ annotations_by_label \in ByLabelInputs
    /\ valval_videos \in SUBSET AllFilenames
    /\ valtrain_videos = AllFilenames \ valval_videos
    /\ num_valval = Cardinality(valval_videos)
    /\ swap = None
    /\ split_log = <<>>
    /\ split_pc = "fix"

NextSplit == SplitFix \/ SplitSwap

SpecSplit == InitSplit /\ [][NextSplit]_vars

\* ------------------------------------------------------------------------
\* Properties
\* ------------------------------------------------------------------------
Terminated == wpc \in {"done", "failed"}

Parses(frame_path) ==
    Len(parse_frame_path(frame_path)) = 2

AllParse == \A i \in 1..num_paths : Parses(frame_paths[i])

PathKey(frame_path) ==
    LET info == parse_frame_path(frame_path) IN FrameKey(info[1], info[2])

DistinctKeys ==
    \A i, j \in 1..num_paths :
        i # j => PathKey(frame_paths[i]) # PathKey(frame_paths[j])

ExpectedKeys == {PathKey(frame_paths[i]) : i \in 1..num_paths}

\* Every put of a committed transaction of this run, in order.
CommittedPuts == Flatten(batches)

PutCount(key) ==
    Cardinality({i \in 1..Len(CommittedPuts) : CommittedPuts[i][1] = key})

\* The precondition shared by C1 and C2: at least one path, all of them
\* parse, their keys differ, and every file decodes.
CleanInput ==
    /\ num_paths >= 1
    /\ AllParse
    /\ DistinctKeys
    /\ corrupt = {}

\* C1: when the writer loop of frames_to_video_frames_proto_lmdb.main exits
\* on clean input, the store holds exactly the N keys of the enumerated
\* paths and N records have been written.
C1_ProtoStoresEveryPath ==
    (script = "proto" /\ run = "first" /\ wpc = "done" /\ CleanInput)
        => /\ DOMAIN store = ExpectedKeys
           /\ Len(CommittedPuts) = num_paths

\* C2: when the writer loop of frames_to_labeled_video_frames_lmdb.main
\* exits on clean input, for every interleaving of the workers, the store
\* holds exactly the N keys of the enumerated paths and each key was put
\* exactly once.
C2_LabeledStoresEveryPathOnce ==
    (script = "labeled" /\ run = "first" /\ wpc = "done" /\ CleanInput)
        => /\ DOMAIN store = ExpectedKeys
           /\ Len(CommittedPuts) = num_paths
           /\ \A key \in ExpectedKeys : PutCount(key) = 1

C2_Witness ==
    /\ script = "labeled" /\ wpc = "done" /\ CleanInput
    /\ num_paths >= 3
    /\ num_processes >= 2
    /\ Len(batches) >= 2
    /\ Cardinality(DOMAIN store) = num_paths

\* Frames a worker has decoded that the writer has not yet put into a
\* transaction: held by a worker in queue.put, in the queue, or dequeued.
DecodedUnwritten ==
    Cardinality({p \in workers : p.image # NoImage})
    + Len(queue)
    + (IF held # <<>> THEN 1 ELSE 0)

\* C3 as stated: at most C frames are decoded but not yet written, C the
\* capacity of the queue.
C3_DecodedUnwrittenWithinCapacity == DecodedUnwritten <= batch_size

\* C3 as amended: the queue holds at most C frames, and at most C + W + 1
\* frames are decoded but not yet written (C in the queue, one in each of
\* the W workers waiting in queue.put, one dequeued by the writer).
C3_DecodedUnwrittenBound ==
    /\ Len(queue) <= batch_size
    /\ DecodedUnwritten <= batch_size + num_processes + 1

C3_Witness ==
    /\ Len(queue) = batch_size
    /\ Cardinality({p \in workers : p.image # NoImage}) = num_processes
    /\ held # <<>>
    /\ num_processes >= 2

\* C4: if every decode succeeds the writer loop terminates: the writer is
\* never left waiting in queue.get() with nothing more to arrive.
C4_WriterNeverBlocksForever ==
    (corrupt = {}) => (Terminated \/ ENABLED Next)

\* C5: if some images fail to decode the run still terminates, having
\* written every frame that did decode.
C5_DecodeFailureIsSkipped ==
    (failed # {} /\ AllParse /\ DistinctKeys)
        => /\ Terminated \/ ENABLED Next
           /\ wpc = "done" =>
                /\ {PathKey(path) : path \in sound} \subseteq DOMAIN store
                /\ Len(CommittedPuts) = num_paths - Cardinality(failed)

\* The store after the committed transactions of this run, in order.
RECURSIVE ApplyBatches(_, _)
ApplyBatches(st, committed) ==
    IF Len(committed) = 0 THEN st
    ELSE ApplyBatches(ApplyPuts(st, Head(committed)), Tail(committed))

\* C6: when the transaction of a batch fails (the commit fails, or the
\* body raises while it is open), the store holds what the earlier batches
\* committed and no record of the failed batch.
C6_BatchAtomicity ==
    (run = "first" /\ wpc = "failed")
        => /\ store = ApplyBatches(EmptyStore, batches)
           /\ \A i \in 1..Len(CommittedPuts) :
                 CommittedPuts[i][1] \in DOMAIN store
           /\ \A i \in 1..Len(txn) :
                 ~(/\ txn[i][1] \in DOMAIN store
                   /\ store[txn[i][1]] = txn[i][2])

C6_Witness ==
    /\ wpc = "failed"
    /\ Len(batches) >= 1
    /\ Len(txn) >= 1
    /\ DOMAIN store # {}

\* C7 as stated: distinct enumerated paths that parse, zero-padded or not,
\* have distinct keys, so a completed run puts no key twice.
C7_DistinctPathsDistinctKeys ==
    /\ wpc = "loop" =>
          \A i, j \in 1..num_paths :
              (i # j /\ Parses(frame_paths[i]) /\ Parses(frame_paths[j]))
                  => PathKey(frame_paths[i]) # PathKey(frame_paths[j])
    /\ (wpc = "done" /\ AllParse) =>
          \A key \in ExpectedKeys : PutCount(key) <= 1

\* Two paths name the same frame: same video, same integer frame index.
SameFrame(p, q) == parse_frame_path(p) = parse_frame_path(q)

\* main() has built frame_path_info and has not yet opened a transaction.
PathsLoaded == wpc = "loop" /\ batches = <<>>

\* C7 as amended: enumerated paths that parse to different (video name,
\* integer frame index) pairs have distinct keys, and a completed run
\* over paths that name pairwise different frames puts no key twice.
C7_DistinctFramesDistinctKeys ==
    /\ PathsLoaded =>
          \A i, j \in 1..num_paths :
              (/\ Parses(frame_paths[i]) /\ Parses(frame_paths[j])
               /\ ~SameFrame(frame_paths[i], frame_paths[j]))
                  => PathKey(frame_paths[i]) # PathKey(frame_paths[j])
    /\ (/\ wpc = "done" /\ AllParse
        /\ \A i, j \in 1..num_paths :
              i # j => ~SameFrame(frame_paths[i], frame_paths[j]))
          => \A key \in ExpectedKeys : PutCount(key) <= 1

C7_Witness ==
    /\ wpc = "done" /\ AllParse
    /\ \E i, j, k \in 1..num_paths :
          /\ frame_paths[i].video # frame_paths[j].video
          /\ frame_paths[i].stem = frame_paths[j].stem
          /\ frame_paths[i].video = frame_paths[k].video
          /\ ~SameFrame(frame_paths[i], frame_paths[k])
          /\ PutCount(PathKey(frame_paths[i])) = 1
          /\ PutCount(PathKey(frame_paths[j])) = 1
          /\ PutCount(PathKey(frame_paths[k])) = 1
    /\ \A i, j \in 1..num_paths :
          i # j => ~SameFrame(frame_paths[i], frame_paths[j])

\* C8: a second completed run on the unchanged inputs against the same
\* store leaves the store as the first completed run left it.
C8_RerunLeavesStoreUnchanged ==
    (run = "again" /\ wpc = "done" /\ CleanInput) => store = first_store

\* C9: two completed runs on the same input that differ only in the
\* interleaving of the workers end with identical stores.
C9_StoreIndependentOfInterleaving ==
    (run = "fresh" /\ wpc = "done" /\ CleanInput) => store = first_store

\* C10: every committed transaction holds at most B records, every one
\* but the last exactly B, and none is empty when N >= 1.
C10_BatchesOfFixedSize ==
    (AllParse /\ corrupt = {} /\ run = "first") =>
        \A k \in 1..Len(batches) :
            /\ Len(batches[k]) <= batch_size
            /\ k < Len(batches) => Len(batches[k]) = batch_size
            /\ num_paths >= 1 => Len(batches[k]) >= 1

\* A write transaction of the writer loop is open.
TxnOpen == wpc \in {"count", "get", "got", "commit"}

\* C11: frames_to_labeled_video_frames_lmdb.main logs 'Output frames to'
\* at most once per run, never while a write transaction is open, never on
\* a run that aborted with an exception, and only when the transaction of
\* the last batch has committed; a run whose writer loop exited has logged
\* it once.
C11_CompletionLoggedOnce ==
    (script = "labeled" /\ run = "first") =>
        /\ Len(log) <= 1
        /\ TxnOpen => log = <<>>
        /\ wpc = "failed" => log = <<>>
        /\ wpc = "done" => Len(log) = 1
        /\ log # <<>> =>
              /\ loaded_images
              /\ txn = <<>>
              /\ Len(batches) >= 1
              /\ store = ApplyBatches(EmptyStore, batches)

C11_Witness ==
    /\ script = "labeled" /\ run = "first"
    /\ log = <<"Output frames to">>
    /\ Len(batches) >= 2
    /\ Len(batches[Len(batches)]) >= 1

\* Records put into a store transaction so far in this run.
RecordsPut == Len(CommittedPuts) + Len(txn)

\* Frames the writer has taken off the queue so far in this run.
FramesDequeued == RecordsPut + (IF held # <<>> THEN 1 ELSE 0)

\* The writer is at the top of an iteration of the for loop, has left the
\* for loop, or has left the while loop.
BetweenIterations ==
    \/ wpc \in {"loop", "commit", "done"}
    \/ script = "proto" /\ wpc = "count"
    \/ script = "labeled" /\ wpc = "get"

\* num_stored never decreases within a run.
NumStoredMonotonic == [][run' = run => num_stored' >= num_stored]_vars

\* C12: between loop iterations and when the writer loop exits, num_stored
\* equals the number of records put into the store so far, and it never
\* exceeds the number of frames dequeued.
C12_NumStoredCountsPuts ==
    (CleanInput /\ run = "first") =>
        /\ BetweenIterations => num_stored = RecordsPut
        /\ num_stored <= FramesDequeued

\* The last call was one of the functions of the given names.
Called(names) == call # <<>> /\ call[1] \in names

PathCall == Called({"parse_frame_path", "frame_path_to_key"})

\* The characters after the prefix of a stem that starts with the prefix.
StemDigits(stem) == SubSeq(stem, Len(frame_prefix) + 1, Len(stem))

\* '<root>/<video>/frame<digits>.<ext>' with a video directory name and at
\* least one digit.
WellFormed(frame_path) ==
    /\ frame_path.video # ""
    /\ Len(frame_path.stem) > Len(frame_prefix)
    /\ SubSeq(frame_path.stem, 1, Len(frame_prefix)) = frame_prefix
    /\ \A i \in 1..Len(StemDigits(frame_path.stem)) :
          IsDigit(StemDigits(frame_path.stem)[i])

RECURSIVE Pow10(_)
Pow10(n) == IF n = 0 THEN 1 ELSE 10 * Pow10(n - 1)

\* The integer a run of decimal digits denotes, by place value.
RECURSIVE DecimalValue(_)
DecimalValue(digits) ==
    IF Len(digits) = 0 THEN 0
    ELSE DigitValue(Head(digits)) * Pow10(Len(digits) - 1)
         + DecimalValue(Tail(digits))

\* The digit run without its leading zeros (one digit is always kept).
RECURSIVE StripZeros(_)
StripZeros(digits) ==
    IF Len(digits) > 1 /\ Head(digits) = "0" THEN StripZeros(Tail(digits))
    ELSE digits

RECURSIVE JoinChars(_)
JoinChars(chars) ==
    IF Len(chars) = 0 THEN "" ELSE Head(chars) \o JoinChars(Tail(chars))

\* C13: for a well-formed path parse_frame_path returns (video, N), N the
\* integer value of the digit run, and frame_path_to_key returns
\* '<video>-<N>', N written without leading zeros.
C13_WellFormedPathParses ==
    (PathCall /\ WellFormed(call[2])) =>
        LET frame_path == call[2]
            digits == StemDigits(frame_path.stem)
        IN /\ call[1] = "parse_frame_path" =>
                 result = <<frame_path.video, DecimalValue(digits)>>
           /\ call[1] = "frame_path_to_key" =>
                 result = <<frame_path.video \o "-"
                              \o JoinChars(StripZeros(digits))>>

C13_Witness ==
    /\ Called({"frame_path_to_key"})
    /\ call[2].video = "video_1234"
    /\ StemDigits(call[2].stem) = <<"0", "1">>
    /\ WellFormed(call[2])
    /\ result = <<"video_1234-1">>

\* C14: parse_frame_path and frame_path_to_key return None, without
\* raising, whenever the parent directory has no name or the stem is not
\* the prefix followed by one or more digits.
C14_MalformedPathsGiveNone ==
    (PathCall /\ ~WellFormed(call[2])) => result = None

\* The keys of the enumerated paths that follow the naming convention.
WellFormedKeys ==
    {PathKey(frame_paths[i]) :
       i \in {j \in 1..num_paths : Parses(frame_paths[j])}}

\* main() was aborted by the exception raised for a dequeued frame.
AbortedOnFrame == wpc = "failed" /\ held # <<>>

\* C15: an enumerated file whose path parse_frame_path maps to None is
\* discarded: it does not abort the run, it leaves no record, and the run
\* ends having written every well-formed frame.
C15_UnparsablePathDiscarded ==
    (~AllParse /\ corrupt = {} /\ run = "first") =>
        /\ ~(AbortedOnFrame /\ ~Parses(held[1]))
        /\ Terminated \/ ENABLED Next
        /\ wpc = "done" => DOMAIN store = WellFormedKeys

\* The arguments of a call of util.annotation.collect_frame_labels.
LabelsCall == Called({"collect_frame_labels"})

\* Exactly one conversion mode was supplied to the call.
OneModeCall == LabelsCall /\ ((call[4] = None) # (call[5] = None))

\* The interval of an annotation contains the query of the call, both
\* ends included: seconds against frame_index / frames_per_second, or
\* frames against frame_index * frame_step.
ContainsQuery(annotation, frame_index, fps, frame_step) ==
    IF fps # None
    THEN /\ annotation.start_seconds * fps[1] <= frame_index
         /\ frame_index <= annotation.end_seconds * fps[1]
    ELSE /\ annotation.start_frame <= frame_index * frame_step[1]
         /\ frame_index * frame_step[1] <= annotation.end_frame

CategoryRank(category) ==
    CHOOSE i \in 1..Len(CategoryOrder) : CategoryOrder[i] = category

\* C16: util.annotation.collect_frame_labels returns the ascending,
\* duplicate-free list of the categories of exactly those annotations
\* whose interval contains the query, both ends included, in both
\* conversion modes.
C16_LabelsAreInclusiveMatches ==
    OneModeCall =>
        /\ \A i, j \in 1..Len(result) :
              i < j => CategoryRank(result[i]) < CategoryRank(result[j])
        /\ \A category \in {"run", "walk"} :
              (\E i \in 1..Len(result) : result[i] = category)
                <=> \E k \in 1..Len(call[2]) :
                       /\ call[2][k].category = category
                       /\ ContainsQuery(call[2][k], call[3], call[4],
                                        call[5])

\* Two annotations, one starting and one ending exactly at the query.
C16_Witness ==
    /\ OneModeCall
    /\ call[4] # None
    /\ Len(call[2]) = 2
    /\ call[2][1].category = "walk"
    /\ call[2][2].category = "run"
    /\ call[2][1].start_seconds * call[4][1] = call[3]
    /\ call[2][1].end_seconds * call[4][1] > call[3]
    /\ call[2][2].end_seconds * call[4][1] = call[3]
    /\ call[2][2].start_seconds * call[4][1] < call[3]
    /\ result = <<"run", "walk">>

\* The annotation list with the interval of its k-th annotation replaced.
Widened(file_annotations, k, start, end) ==
    [file_annotations EXCEPT
       ![k] = AnnotationOf(start, end, file_annotations[k].category)]

\* C18: if the category of an annotation is returned for a query, it is
\* still returned for the same query after the interval of that annotation
\* is widened at either end.
C18_WideningKeepsLabel ==
    OneModeCall =>
        \A k \in 1..Len(call[2]) :
            (\E i \in 1..Len(result) : result[i] = call[2][k].category) =>
                \A start \in 0..call[2][k].start_seconds,
                   end \in call[2][k].end_seconds..MaxTime :
                    LET wider == annotation_collect_frame_labels(
                                     Widened(call[2], k, start, end),
                                     call[3], call[4], call[5])
                    IN \E i \in 1..Len(wider) :
                          wider[i] = call[2][k].category

\* A returned category whose only annotation can be widened at both ends.
C18_Witness ==
    /\ OneModeCall
    /\ call[5] # None
    /\ Len(call[2]) = 1
    /\ call[2][1].start_seconds > 0
    /\ call[2][1].end_seconds < MaxTime
    /\ result = <<call[2][1].category>>

\* C19: collect_frame_labels fails its assertion when both or neither of
\* frames_per_second and frame_step are supplied, and returns a list of
\* labels when exactly one is.
C19_ExactlyOneModeRequired ==
    LabelsCall =>
        /\ (call[4] # None /\ call[5] # None) => result = AssertionError
        /\ (call[4] = None /\ call[5] = None) => result = AssertionError
        /\ OneModeCall =>
              /\ result # AssertionError
              /\ \A i \in 1..Len(result) : result[i] \in {"run", "walk"}

C19_Witness ==
    /\ LabelsCall
    /\ call[4] # None /\ call[5] # None
    /\ Len(call[2]) = 1
    /\ ContainsQuery(call[2][1], call[3], call[4], call[5])
    /\ result = AssertionError

\* The names of the labels attached to a LabeledVideoFrame record.
LabelNames(record) == [i \in 1..Len(record.label) |-> record.label[i].name]

\* C17: the labels of each record frames_to_labeled_video_frames_lmdb
\* writes are those util.annotation.collect_frame_labels (inclusive at both
\* ends) returns for the annotations of the video and the query
\* (frame_index - 1) / frames_per_second.
C17_RecordLabelsAreInclusive ==
    (script = "labeled" /\ run = "first") =>
        \A i \in 1..Len(txn) :
            LET record == txn[i][2] IN
            LabelNames(record) =
                annotation_collect_frame_labels(
                    DefaultDictGet(annotations, record.frame.video_name),
                    record.frame.frame_index - 1,
                    <<frames_per_second>>, None)

\* The ids of the lines of a catalog after the one-indexed adjustment.
AdjustedIds(lines, one_indexed_labels) ==
    [i \in 1..Len(lines) |->
       IF one_indexed_labels THEN lines[i].id - 1 ELSE lines[i].id]

\* The ids of the N lines are exactly 0..N-1, none missing, none twice.
DenseIds(ids) ==
    /\ {ids[i] : i \in 1..Len(ids)} = 0..(Len(ids) - 1)
    /\ \A i, j \in 1..Len(ids) : i # j => ids[i] # ids[j]

\* No category name appears on more than one line.
DistinctNames(lines) ==
    \A i, j \in 1..Len(lines) : i # j => lines[i].label # lines[j].label

\* C20: load_label_ids fails if and only if the adjusted ids of the N
\* lines are not exactly {0,...,N-1}, for every catalog, also one that
\* names a category on more than one line.
C20_FailsIffIdsNotDense ==
    Called({"load_label_ids"}) =>
        (IsRaised(result) <=> ~DenseIds(AdjustedIds(call[2], call[3])))

FullCategory(details) == JoinWords(Tail(details))

\* C30: both loaders map the full category of every catalog line, spaces
\* included, to its id without raising.
C30_CategoriesWithSpacesLoad ==
    (/\ Called({"util.load_label_ids", "script.load_label_ids"})
     /\ \E i \in 1..Len(call[2]) : Len(call[2][i]) > 2
     /\ \A i, j \in 1..Len(call[2]) :
           i # j => FullCategory(call[2][i]) # FullCategory(call[2][j])
     /\ {StoredId(call[2][i][1], call[3]) : i \in 1..Len(call[2])}
           = 0..(Len(call[2]) - 1)) =>
        /\ ~IsRaised(result)
        /\ \A i \in 1..Len(call[2]) :
              /\ FullCategory(call[2][i]) \in DOMAIN result
              /\ result[FullCategory(call[2][i])]
                    = StoredId(call[2][i][1], call[3])

\* floor(duration * rate) for a duration given in half seconds: the
\* largest integer n with 2 * n <= duration_halves * rate.
FloorOfProduct(duration_halves, rate) ==
    CHOOSE n \in 0..(duration_halves * rate) :
        /\ 2 * n <= duration_halves * rate
        /\ 2 * (n + 1) > duration_halves * rate

\* C28: frames_already_dumped returns True exactly when the info marker
\* exists, carries the requested rate and the absolute source path, and
\* every expected frame file exists: the floor(duration * rate) - 1
\* consecutive indices from 0 when frame 0 exists and from 1 otherwise.
C28_DumpedIffMarkerAndFrames ==
    Called({"frames_already_dumped"}) =>
        LET video_path == call[2]
            info_file == call[3]
            frame_files == call[4]
            first == IF 0 \in frame_files THEN 0 ELSE 1
            count == FloorOfProduct(call[6], call[5]) - 1
        IN /\ result \in BOOLEAN
           /\ result <=>
                 /\ info_file # None
                 /\ info_file[1].frames_per_second = call[5]
                 /\ info_file[1].input_video_path.absolute
                 /\ info_file[1].input_video_path.parts
                      = (IF video_path.absolute THEN video_path.parts
                         ELSE <<"d">> \o video_path.parts)
                 /\ \A i \in first..(first + count - 1) : i \in frame_files

\* A relative source path, frames numbered from 1, all three present.
C28_Witness ==
    /\ Called({"frames_already_dumped"})
    /\ ~call[2].absolute
    /\ call[4] = {1, 2, 3}
    /\ FloorOfProduct(call[6], call[5]) = 4
    /\ result = TRUE

\* The annotation kept by a filter: any category when it is None.
Kept(annotation, filter_category) ==
    filter_category = None \/ annotation.category = filter_category[1]

\* C29: with filter_category, load_annotations_json maps exactly the files
\* that have an annotation of the category to their annotations of that
\* category in file order, and raises when there is none; without it,
\* every annotation is kept, grouped by filename in file order.
C29_FilteredAnnotations ==
    Called({"load_annotations_json"}) =>
        LET annotations_list == call[2]
            kept == {i \in 1..Len(annotations_list) :
                       Kept(annotations_list[i], call[3])}
        IN IF call[3] # None /\ kept = {}
           THEN result = Raised("ValueError")
           ELSE /\ ~IsRaised(result)
                /\ DOMAIN result = {annotations_list[i].filename : i \in kept}
                /\ \A filename \in DOMAIN result :
                      result[filename] =
                        SelectSeq(annotations_list,
                                  LAMBDA a : /\ a.filename = filename
                                             /\ Kept(a, call[3]))

\* File A has two annotations of the category around one of another
\* file; B has none of the category.
C29_Witness ==
    /\ Called({"load_annotations_json"})
    /\ call[3] = <<"run">>
    /\ Len(call[2]) = 3
    /\ call[2][1].filename = "A" /\ call[2][1].category = "run"
    /\ call[2][2].filename = "B" /\ call[2][2].category = "walk"
    /\ call[2][3].filename = "A" /\ call[2][3].category = "run"
    /\ call[2][1] # call[2][3]
    /\ DOMAIN result = {"A"}
    /\ result["A"] = <<call[2][1], call[2][3]>>

\* Every label of a record carries the id the catalog gives its name.
LabelsInCatalog(record) ==
    \A i \in 1..Len(record.label) :
        /\ DOMAIN record.label[i] = {"name", "id"}
        /\ record.label[i].name \in DOMAIN label_ids
        /\ record.label[i].id = label_ids[record.label[i].name]

\* The labels main() computes for the frame it holds.
HeldLabels ==
    LET info == parse_frame_path(held[1])
    IN collect_frame_labels(DefaultDictGet(annotations, info[1]),
                            info[2] - 1, frames_per_second)

\* The frame held by the writer has a label the catalog does not name.
HeldLabelMissing ==
    /\ held # <<>>
    /\ Parses(held[1])
    /\ \E i \in 1..Len(HeldLabels) : HeldLabels[i] \notin DOMAIN label_ids

\* C24: when a frame's label is absent from the catalog the labeled run
\* aborts: such a frame is never put, no record with a label lacking a
\* catalog id is written or committed, and after the abort the store holds
\* the earlier committed batches and no record of the failed batch.
C24_MissingLabelAborts ==
    (script = "labeled" /\ run = "first") =>
        /\ \A i \in 1..Len(txn) : LabelsInCatalog(txn[i][2])
        /\ \A key \in DOMAIN store : LabelsInCatalog(store[key])
        /\ HeldLabelMissing => wpc \in {"got", "failed"}
        /\ (wpc = "failed" /\ HeldLabelMissing) =>
              /\ store = ApplyBatches(EmptyStore, batches)
              /\ \A i \in 1..Len(txn) :
                    ~(/\ txn[i][1] \in DOMAIN store
                      /\ store[txn[i][1]] = txn[i][2])

\* The abort follows a committed batch and unlabeled puts in the failed
\* batch.
C24_Witness ==
    /\ script = "labeled" /\ run = "first"
    /\ wpc = "failed" /\ HeldLabelMissing
    /\ Len(batches) >= 1
    /\ Len(txn) >= 1
    /\ DOMAIN store # {}

\* C25: while the writer of frames_to_labeled_video_frames_lmdb processes
\* frames, the annotation mapping (its key set and every annotation list)
\* stays what load_annotations_json returned.
C25_AnnotationsReadOnly ==
    (script = "labeled" /\ pool_state = "running") =>
        /\ annotations = load_annotations_json(annotations_json, None)
        /\ wpc \in {"loop", "get", "got", "commit", "done"} =>
              label_ids = script_load_label_ids(args_class_mapping,
                                                args_one_indexed_labels)

\* No decode job was submitted, no image decoded and no frame enqueued.
NoWorkStarted ==
    /\ tasks = <<>>
    /\ workers = {}
    /\ queue = <<>>
    /\ sound = {}
    /\ failed = {}

\* main() of the labeled script has not passed load_label_ids, or
\* load_label_ids raised.
CatalogNotValidated ==
    \/ wpc \in {"start", "catalog"}
    \/ /\ wpc = "failed"
       /\ IsRaised(script_load_label_ids(args_class_mapping,
                                         args_one_indexed_labels))

\* C22: in frames_to_labeled_video_frames_lmdb.main, as long as
\* load_label_ids has not validated the catalog (and when it rejected the
\* catalog), no decode job is submitted to the pool and no frame is
\* enqueued.
C22_CatalogValidatedBeforeWork ==
    (script = "labeled" /\ CatalogNotValidated) => NoWorkStarted

\* Exactly one of --resize_width and --resize_height was supplied.
OneSizeOnly ==
    \/ resize_width # None /\ resize_height = None
    \/ resize_width = None /\ resize_height # None

\* C23: a run given exactly one of resize_width and resize_height never
\* creates the pool: it is at its start or has failed, no job is submitted,
\* no image is decoded, nothing is enqueued and no store transaction is
\* opened; a run that has a pool passed the check.
C23_ResizePairCheckedFirst ==
    /\ pool_state = "running" => ~OneSizeOnly
    /\ OneSizeOnly =>
          /\ wpc \in {"start", "failed"}
          /\ pool_state = "none"
          /\ NoWorkStarted
          /\ open_txns = 0
          /\ txn = <<>>
          /\ store = EmptyStore
          /\ batches = <<>>

\* A run over at least one frame, given only a width, was rejected.
C23_Witness ==
    /\ wpc = "failed"
    /\ resize_width # None
    /\ resize_height = None
    /\ num_paths >= 1

\* C26: when main() of an ingestion script that had frames to load reaches
\* its end, the pool has been terminated or joined and no pool process
\* still holds a chunk.
C26_PoolTornDownAtEnd ==
    (wpc = "done" /\ num_paths >= 1) =>
        (pool_state # "running" /\ workers = {})

\* What the store-side of the run consists of.
store_side == <<store, txn, open_txns, batches>>

\* C27: in every state at most one write transaction is open, and one is
\* open exactly while the writer is inside its "with" block; every step
\* that changes the store, the open transaction or the committed batches
\* is a step of the writer (main process), not of a pool process.
C27_SingleWriter ==
    /\ [](open_txns \in {0, 1} /\ (open_txns = 1 <=> TxnOpen))
    /\ [][store_side' # store_side
            => (wpc' # wpc /\ workers' = workers /\ tasks' = tasks)]_vars

\* The writer has put a record in its open transaction while a pool process
\* holds a chunk.
C27_Witness ==
    /\ open_txns = 1
    /\ Len(txn) >= 1
    /\ workers # {}

\* C35: whatever the number of enumerated paths, the queue never holds
\* more than its capacity C, no more than W pool processes hold a decoded
\* frame, the writer holds at most one, and together at most C + W + 1
\* decoded frames are in flight.
C35_InFlightIndependentOfPaths ==
    LET decoded_by_workers == Cardinality({p \in workers : p.image # NoImage})
        held_by_writer == IF held # <<>> THEN 1 ELSE 0
    IN /\ Len(queue) <= batch_size
       /\ decoded_by_workers <= num_processes
       /\ decoded_by_workers + Len(queue) + held_by_writer
             <= batch_size + num_processes + 1

\* More paths than the bound, and the bound is reached.
C35_Witness ==
    /\ num_paths > batch_size + num_processes + 1
    /\ DecodedUnwritten = batch_size + num_processes + 1

\* C36: when the writer loop has exited normally, every job was taken, no
\* pool process holds a frame to decode or to push, the queue is empty and
\* every frame pushed was popped and put in a committed batch.
C36_QueueExhaustedAtExit ==
    wpc = "done" =>
        /\ tasks = <<>>
        /\ workers = {}
        /\ queue = <<>>
        /\ RecordsPut = Cardinality(sound)

\* The held frame belongs to a video without an entry in the annotation
\* file.
HeldUnannotated ==
    /\ script = "labeled"
    /\ held # <<>>
    /\ parse_frame_path(held[1]) # None
    /\ parse_frame_path(held[1])[1]
          \notin DOMAIN load_annotations_json(annotations_json, None)

\* The records written (in the open transaction or committed) for videos
\* without an entry in the annotation file.
UnannotatedRecords ==
    LET annotated == DOMAIN load_annotations_json(annotations_json, None)
        written == {txn[i][2] : i \in 1..Len(txn)}
                   \cup UNION {{batches[b][i][2] : i \in 1..Len(batches[b])} :
                                b \in 1..Len(batches)}
    IN {r \in written : r.frame.video_name \notin annotated}

\* C37: in the labeled pipeline the record built for a frame of a video
\* without an entry in the annotation file has an empty label list and the
\* video name and frame index parsed from its path; building it does not
\* raise, so the run does not fail on such a frame, and every record
\* written for such a video has no label.
C37_UnannotatedVideoUnlabeled ==
    /\ (HeldUnannotated /\ wpc = "got") =>
          LET info == parse_frame_path(held[1])
              record == BuildRecord(held[1], held[2])
          IN /\ ~IsRaised(record)
             /\ record.label = <<>>
             /\ record.frame.video_name = info[1]
             /\ record.frame.frame_index = info[2]
    /\ ~(HeldUnannotated /\ wpc = "failed")
    /\ script = "labeled" => \A r \in UnannotatedRecords : r.label = <<>>

\* A record of video B, which the annotation file does not mention, was
\* committed for a frame inside the time span annotated for video A.
C37_Witness ==
    /\ script = "labeled"
    /\ \E b \in 1..Len(batches) : \E i \in 1..Len(batches[b]) :
          /\ batches[b][i][2].frame.video_name = "B"
          /\ batches[b][i][2].frame.frame_index = 2
          /\ batches[b][i][2].label = <<>>

\* C31: write_imageless_frames_batch returns a key to main() only when keys
\* remain after the batch it processed (and None otherwise), so the copy
\* never starts over: the progress bar never counts more puts than the
\* input store has entries.
C31_CopyLoopNeverRestarts ==
    /\ (copy_pc = "call" /\ last_key # None) => last_key[1] < num_entries
    /\ progress <= num_entries

\* C32: the puts of a call are for consecutive keys, starting with the
\* first key after last_key (the first key of the store when last_key is
\* None), at most batch_size of them, each with the input value without
\* its image bytes; when the copy is done every key of the input store
\* was put exactly once and the output store is the input store without
\* image bytes.
C32_BatchesCoverKeysOnce ==
    LET before == IF last_key = None THEN 0 ELSE last_key[1] IN
    /\ copy_pc = "iterate" =>
          /\ Len(output_transaction) <= copy_batch_size
          /\ \A j \in 1..Len(output_transaction) :
                /\ output_transaction[j][1] = before + j
                /\ output_transaction[j][2]
                     = remove_image(input_lmdb[before + j])
    /\ copy_pc = "done" =>
          /\ progress = num_entries
          /\ output_lmdb = [key \in DOMAIN input_lmdb |->
                              remove_image(input_lmdb[key])]

\* The consumer of resize_images.main waits in queue.get() and nothing
\* will ever be pushed: no job is left and no pool process holds a frame.
ConsumerBlockedForever ==
    /\ resize_pc = "get"
    /\ resize_queue = <<>>
    /\ resize_jobs = <<>>
    /\ resize_workers = {}

\* C33: the consumer loop of resize_images.main is never left waiting in
\* queue.get() once every queued image was dequeued, whatever the set of
\* image paths and also when an output file appeared after the filtering.
C33_ConsumerNeverBlocksForever == ~ConsumerBlockedForever

\* C34: dump_frames is about to run the extraction command only in a
\* state where frames_already_dumped is False; info.json changes only in
\* the step after an extraction that succeeded, so a call whose extraction
\* failed or was interrupted leaves info.json as it was; and when there
\* was no info.json, frames_already_dumped is still False after such a
\* call, whatever frames it wrote.
C34_MarkerOnlyAfterSuccess ==
    /\ [](dump_pc = "extract" => ~frames_already_dumped_helper)
    /\ [][disk_info_file' # disk_info_file
            => (dump_pc = "mark" /\ successfully_wrote_images)]_vars
    /\ [][(dump_pc' \in {"failed", "interrupted"} /\ disk_info_file = None)
            => ~frames_already_dumped_helper']_vars

\* An extraction failed after it wrote every expected frame, and there is
\* no info.json.
C34_Witness ==
    /\ dump_pc = "failed"
    /\ disk_info_file = None
    /\ ExpectedFrameCount(video_info.duration, DumpRate) = 2
    /\ {1, 2} \subseteq disk_frame_files

\* C38: in the swap loop of create_train_val_split.main the two splits
\* stay disjoint, their union stays the set of annotated filenames, both
\* keep their initial sizes, and a swap pair returned by
\* split_constraint_fix has its first element in valtrain_videos and its
\* second in valval_videos.
C38_SwapLoopKeepsPartition ==
    split_pc # "off" =>
        /\ valtrain_videos \cap valval_videos = {}
        /\ valtrain_videos \cup valval_videos = AllFilenames
        /\ Cardinality(valval_videos) = num_valval
        /\ Cardinality(valtrain_videos)
             = Cardinality(AllFilenames) - num_valval
        /\ split_pc = "swap" =>
              (swap[1] \in valtrain_videos /\ swap[2] \in valval_videos)

\* A swap was applied and the loop is about to call split_constraint_fix
\* again.
C38_Witness ==
    /\ split_pc = "fix"
    /\ swap # None
    /\ swap[1] \in valval_videos
    /\ swap[2] \in valtrain_videos

\* The files of the i-th label, and whether its constraint is violated.
LabelFiles(i) == FilenamesOf(annotations_by_label[i].annotations)

LabelViolated(i) ==
    \/ LabelFiles(i) \cap valtrain_videos = {}
    \/ LabelFiles(i) \cap valval_videos = {}

LabelCount(i) == Len(annotations_by_label[i].annotations)

\* split_constraint_fix has just returned, every label has at least two
\* files and both splits are non-empty.
FixReturned ==
    /\ split_pc \in {"swap", "done"}
    /\ valtrain_videos # {}
    /\ valval_videos # {}
    /\ \A i \in 1..Len(annotations_by_label) : Cardinality(LabelFiles(i)) >= 2

\* C39: split_constraint_fix returns None exactly when no label is
\* violated; else the pair it returns and the label it logs are for the
\* violated label with the most annotations (the earliest of them), and
\* the pair takes a valtrain video and a file of that label when the
\* label has no file in valtrain, a file of that label and a valval video
\* when it has none in valval.
C39_FixesFirstViolatedLabel ==
    FixReturned =>
        /\ swap = None <=>
              \A i \in 1..Len(annotations_by_label) : ~LabelViolated(i)
        /\ swap # None =>
              \E i \in 1..Len(annotations_by_label) :
                 /\ LabelViolated(i)
                 /\ split_log = <<annotations_by_label[i].label>>
                 /\ \A j \in 1..Len(annotations_by_label) :
                       LabelViolated(j) =>
                           /\ LabelCount(j) <= LabelCount(i)
                           /\ j < i => LabelCount(j) < LabelCount(i)
                 /\ IF LabelFiles(i) \cap valtrain_videos = {}
                    THEN /\ swap[1] \in valtrain_videos
                         /\ swap[2] \in LabelFiles(i)
                    ELSE /\ swap[1] \in LabelFiles(i)
                         /\ swap[2] \in valval_videos

\* Both labels are violated and the one listed second, which has more
\* annotations, was fixed.
C39_Witness ==
    /\ FixReturned
    /\ split_pc = "swap"
    /\ Len(annotations_by_label) = 2
    /\ LabelViolated(1)
    /\ LabelViolated(2)
    /\ LabelCount(1) < LabelCount(2)
    /\ split_log = <<"walk">>

\* The annotations of a call are for at most one file and one category.
OneFileOneCategory(annotation_list) ==
    /\ Cardinality({annotation_list[i].filename :
                      i \in 1..Len(annotation_list)}) <= 1
    /\ Cardinality({annotation_list[i].category :
                      i \in 1..Len(annotation_list)}) <= 1

\* C40: for annotations of one file and one category with
\* 0 <= start_frame <= end_frame, annotations_to_frame_labels returns a
\* vector with 1 at frame f (0 <= f < num_frames) exactly when
\* in_annotation(a, f) holds for some annotation a; it raises when the
\* annotations span more than one filename or category.
C40_FrameLabelsAgreeWithInAnnotation ==
    Called({"annotations_to_frame_labels"}) =>
        IF OneFileOneCategory(call[2])
        THEN /\ ~IsRaised(result)
             /\ \A f \in 0..(call[3] - 1) :
                   result.row[f + 1] = 1
                     <=> \E i \in 1..Len(call[2]) : in_annotation(call[2][i], f)
        ELSE IsRaised(result)
====
